---- MODULE Spec2Model ----
(***************************************************************************)
(* A model of the orc workflow engine (jorge-barreto/orc): the runner      *)
(* state machine (internal/runner), the persisted run state and loop      *)
(* counts (internal/state), the configuration validator (internal/config) *)
(* and the atomic file store (writeFileAtomic).                           *)
(***************************************************************************)
EXTENDS Integers, Sequences, FiniteSets, TLC

\* ------------------------------------------------------------------------
\* Bounds of the model
\* ------------------------------------------------------------------------

\* number of phases of a workflow configuration
NumPhases == 3

\* largest on-fail.max a configuration carries
MaxRetries == 2

\* largest number of declared outputs of a phase
MaxOutputs == 1

\* longest byte string written through writeFileAtomic
MaxLen == 2

\* ------------------------------------------------------------------------
\* Configuration (config.Config, config.Phase, config.OnFail)
\* ------------------------------------------------------------------------

PhaseNames == <<"a", "b", "c", "d", "e", "f">>

Idx == 0 .. (NumPhases - 1)

\* the name of the phase declared at position i (names are unique)
Name(i) == PhaseNames[i + 1]

Names == {Name(i) : i \in Idx}

\* OnFail == nil is the record with an empty Goto
NoOnFail == [Goto |-> "", Max |-> 0]

\* the policies the model draws from: the smallest and the largest max
OnFails == {NoOnFail} \cup [Goto : Names, Max : {1, MaxRetries}]

Phase == [Type : {"script", "agent"},
          Outputs : {0, MaxOutputs},
          Condition : BOOLEAN,
          ParallelWith : Names \cup {""},
          OnFail : OnFails]

\* a phase with no optional field set
PlainPhase == [Type |-> "script", Outputs |-> 0, Condition |-> FALSE,
               ParallelWith |-> "", OnFail |-> NoOnFail]

\* Config.PhaseIndex: position of the phase named name, -1 when there is none
PhaseIndexOf(name) ==
    IF \E i \in Idx : Name(i) = name
    THEN CHOOSE i \in Idx : Name(i) = name /\ \A j \in Idx : Name(j) = name => i <= j
    ELSE -1

\* phaseExists of validate.go
phaseExists(name) == \E i \in Idx : Name(i) = name

\* the per-phase checks of Validate that concern the runner: on-fail.goto
\* names a strictly earlier phase, parallel-with names an existing phase,
\* parallel-with and on-fail are not combined on one phase
ValidatePhase(phases, i) ==
    LET p == phases[i] IN
    /\ (p.OnFail # NoOnFail =>
          /\ p.OnFail.Goto # ""
          /\ \E j \in Idx : j < i /\ Name(j) = p.OnFail.Goto
          /\ p.OnFail.Max >= 1)
    /\ (p.ParallelWith # "" =>
          /\ phaseExists(p.ParallelWith)
          /\ p.OnFail = NoOnFail)

Validate(phases) == \A i \in Idx : ValidatePhase(phases, i)

\* the optional fields a phase sets
Features(p) ==
    (IF p.OnFail # NoOnFail THEN 1 ELSE 0)
  + (IF p.ParallelWith # "" THEN 1 ELSE 0)
  + (IF p.Condition THEN 1 ELSE 0)
  + (IF p.Outputs > 0 THEN 1 ELSE 0)

\* phases the model draws from: an agent phase is one that declares outputs
\* (the runner reads Type only when outputs are missing)
PhaseChoices == {p \in Phase : (p.Type = "agent" => p.Outputs > 0)}

\* the phases that set at most one optional field
OneFeature == {p \in PhaseChoices : Features(p) <= 1}

\* phase p with the optional field of q (if any) set as in q
Merge(p, q) ==
    [Type |-> IF q.Outputs > 0 THEN q.Type ELSE p.Type,
     Outputs |-> IF q.Outputs > 0 THEN q.Outputs ELSE p.Outputs,
     Condition |-> p.Condition \/ q.Condition,
     ParallelWith |-> IF q.ParallelWith # "" THEN q.ParallelWith ELSE p.ParallelWith,
     OnFail |-> IF q.OnFail # NoOnFail THEN q.OnFail ELSE p.OnFail]

PlainConfig == [i \in Idx |-> PlainPhase]

\* the configurations of the model: every configuration Validate accepts in
\* which at most two optional fields are set over all phases
Configs ==
    {phases \in
        {[[PlainConfig EXCEPT ![i1] = Merge(@, q1)] EXCEPT ![i2] = Merge(@, q2)] :
            <<i1, q1, i2, q2>> \in Idx \X OneFeature \X Idx \X OneFeature} :
        Validate(phases)}

\* ------------------------------------------------------------------------
\* dispatch.Environment: structs, maps and slices
\* ------------------------------------------------------------------------

\* r.Env of the runner, env1 and env2 of the goroutines of runParallel, cp
\* of the tests of Clone
EnvNames == {"r", "env1", "env2", "cp"}

\* the objects a process allocates for its environments
MaxObjects == 6

Addr == 1 .. MaxObjects

nil == 0

\* the appends to one filteredEnv after BuildEnv has filled it
MaxAppends == 1

\* keys of the vars section of the configuration and of the writes of the tests
Keys == {"A", "C"}

Absent == ""

\* the entries appended to a filteredEnv
Extras == {"EXTRA", "OTHER"}

NoVars == [k \in Keys |-> Absent]

\* cfg.Vars: none, or A: "1"
ConfigVars == {NoVars, [NoVars EXCEPT !["A"] = "1"]}

\* values of os.Environ() of the model; strings.HasPrefix(key, "CLAUDECODE")
\* holds for CLAUDECODE_X only
Environs == {<<"HOME", "CLAUDECODE_X", "PATH">>, <<"HOME", "PATH", "TERM">>}

HasPrefixClaudeCode(key) == key = "CLAUDECODE_X"

NoObject == [kind |-> "free"]

\* a nil slice
NilSlice == [arr |-> nil, len |-> 0]

\* an Environment that does not exist (yet)
NoEnvironment == [live |-> FALSE, CustomVars |-> nil, filteredEnv |-> NilSlice,
                  PhaseIndex |-> 0]

\* the capacity append gives the slice it returns, for a slice of length len
\* and capacity cap (growslice, small slices of strings)
AppendCap(len, cap) == IF len < cap THEN cap ELSE IF cap = 0 THEN 1 ELSE 2 * cap

\* the capacity of a slice built from nil by n calls of append
RECURSIVE CapAfter(_)
CapAfter(n) == IF n = 0 THEN 0 ELSE AppendCap(n - 1, CapAfter(n - 1))

\* the loop of BuildEnv over os.Environ(): the entries whose key does not
\* start with CLAUDECODE
RECURSIVE FilterEnv(_)
FilterEnv(s) ==
    IF s = <<>> THEN <<>>
    ELSE IF HasPrefixClaudeCode(Head(s)) THEN FilterEnv(Tail(s))
    ELSE <<Head(s)>> \o FilterEnv(Tail(s))

\* the addresses of h that hold no object
Free(h) == {a \in Addr : h[a] = NoObject}

\* the address of the next allocation in h
New(h) == CHOOSE a \in Free(h) : \A b \in Free(h) : a <= b

\* Environment.Clone: the struct is copied, CustomVars (when not nil) is a
\* new map with the same entries, filteredEnv (when not nil) a new slice of
\* the same length and contents
Clone(e, h) ==
    LET m == e.CustomVars
        a1 == New(h)
        h1 == IF m # nil THEN [h EXCEPT ![a1] = h[m]] ELSE h
        s == e.filteredEnv
        a2 == New(h1)
        h2 == IF s.arr # nil
              THEN [h1 EXCEPT ![a2] = [kind |-> "array",
                                       elems |-> SubSeq(h[s.arr].elems, 1, s.len),
                                       cap |-> s.len]]
              ELSE h1 IN
    [env |-> [e EXCEPT !.CustomVars = IF m # nil THEN a1 ELSE nil,
                       !.filteredEnv = IF s.arr # nil
                                       THEN [arr |-> a2, len |-> s.len]
                                       ELSE NilSlice],
     heap |-> h2]

\* ------------------------------------------------------------------------
\* State
\* ------------------------------------------------------------------------

VARIABLES
    fs,            \* the file system under writeFileAtomic: inodes and names
    writer,        \* the call of writeFileAtomic in progress, or the last one
    seen,          \* what the last os.ReadFile of the target by a reader returned
    phases,        \* Config.Phases of the project (fixed over a behaviour)
    observe,       \* which part of the history of the artifacts directory is kept
    faulty,        \* whether writes to the artifacts directory may fail
    pc,            \* position of the orc process ("stopped": no process;
                   \* "returned": runCmd has returned, the process is exiting)
    PhaseIndex,    \* r.State.PhaseIndex
    Status,        \* r.State.Status
    loopCounts,    \* the loopCounts map of Run
    stateFile,     \* contents of state.json (NoFile when absent)
    loopFile,      \* contents of loop-counts.json (NoFile when absent)
    feedbackFile,  \* contents of feedback/from-<phase>.md, per phase name
    cancelled,     \* ctx.Err() != nil for the outer context
    inflight,      \* per phase, number of Dispatch calls in flight
    outcome,       \* result, err of the failed Dispatch while on-fail is handled
    todo,          \* re-prompts still to issue for missing outputs
    workers,       \* the two goroutines of runParallel
    results,       \* the results channel of runParallel
    firstErr,      \* firstErr of runParallel (name of the failing phase)
    subCancelled,  \* the subordinate context of runParallel is cancelled
    ret,           \* how the last orc process ended
    directive,     \* --retry / --from of the current process
    hist,          \* observations of the process (history, read by no action)
    past,          \* history of the artifacts directory (read by no action)
    environ,       \* os.Environ() of the orc process
    envs,          \* the Environment structs: r.Env, env1 and env2 of
                   \* runParallel, cp of the Clone tests
    heap,          \* the maps and backing arrays the Environment structs refer to
    stdin,         \* os.Stdin: the lines the operator has typed, not read yet
    sr,            \* the StdinReader of each attended agent phase
    attended,      \* position of the dispatcher that owns the terminal
    typed,         \* number of lines the operator has typed
    stdout,        \* the lines of the child's stdout processStream has not read
    stream,        \* the call of processStream: position, ctx, textBuf, result
    Entries,       \* Timing.Entries
    clock,         \* time.Now(), in seconds
    timingCall     \* the last call made on the Timing

config == <<phases, faulty, observe>>
\* what no action of the runner changes
terminal == <<stdin, sr, attended, typed>>
streaming == <<stdout, stream>>
timing == <<Entries, clock, timingCall>>
\* the parts of the program that are followed on their own
aside == <<terminal, streaming, timing>>
environment == <<environ, envs, heap, aside>>
frame == <<config, fs, writer, seen, environment>>
mem == <<PhaseIndex, Status, loopCounts>>
disk == <<stateFile, loopFile, feedbackFile>>
seq == <<outcome, todo>>
par == <<workers, results, firstErr, subCancelled>>
vars == <<fs, writer, seen, phases, faulty, observe, pc, PhaseIndex, Status, loopCounts, stateFile, loopFile,
          feedbackFile, cancelled, inflight, outcome, todo, workers, results,
          firstErr, subCancelled, ret, directive, hist, past, environ, envs, heap,
          stdin, sr, attended, typed, stdout, stream, Entries, clock, timingCall>>

\* a file of the artifacts directory is the empty sequence when it does not
\* exist and the one-element sequence of its contents when it does
NoFile == <<>>

Contents(file) == file[1]

StatusRunning == "running"
StatusCompleted == "completed"
StatusFailed == "failed"
StatusInterrupted == "interrupted"

\* what cmd.Run and cmd.Wait return for the subprocess of a phase: nil (exit
\* status 0); an *exec.ExitError of a process that exited with a status above
\* 0 ("exit") or that was ended by a signal ("killed", ExitCode() is -1); the
\* error of the context the command was started under, when the context was
\* done and the process exited with status 0 ("ctx"); any other error
WaitErrs == {"nil", "exit", "killed", "ctx", "other"}

\* a variant of exitCode that reports no error for what is not an ExitError
exitCodeSwallow(err) ==
    IF err = "exit" THEN [code |-> 1, err |-> "nil"]
    ELSE IF err = "killed" THEN [code |-> -1, err |-> "nil"]
    ELSE [code |-> 0, err |-> "nil"]

\* exitCode: (0, nil) for nil, (ExitCode(), nil) for an ExitError, (0, err)
\* for any other error
exitCode(err) ==
    IF err = "nil" THEN [code |-> 0, err |-> "nil"]
    ELSE IF err = "exit" THEN [code |-> 1, err |-> "nil"]
    ELSE IF err = "killed" THEN [code |-> -1, err |-> "nil"]
    ELSE [code |-> 0, err |-> err]

\* RunScript and RunAgent after the subprocess has ended with wait, having
\* captured output or not, as Run classifies what they return: a dispatch
\* error (nil, err); exit code 0; a non-zero exit code with or without
\* captured output
RunScript(wait, captured) ==
    LET r == exitCode(wait) IN
    IF r.err # "nil" THEN "error"
    ELSE IF r.code = 0 THEN "ok"
    ELSE IF captured THEN "exit_output"
    ELSE "exit_empty"

\* what Dispatch returns
Outcomes == {RunScript(wait, captured) : wait \in WaitErrs, captured \in BOOLEAN}

\* what Dispatch returns when the deadline of the phase (context.WithTimeout
\* over phase.Timeout) has expired and the command was ended for it
TimedOut == {RunScript(wait, captured) :
                wait \in {"exit", "killed", "ctx"}, captured \in BOOLEAN}

\* a variant of Failed that looks at the exit code only
FailedExitOnly(o) == o \in {"exit_output", "exit_empty"}

\* "err != nil || (result != nil && result.ExitCode != 0)"
Failed(o) == o # "ok"

\* an empty loop-count map (a missing key reads as 0)
NoCounts == [n \in Names |-> 0]

NoFeedback == [n \in Names |-> ""]

NoWorkers == [k \in 1 .. 2 |-> "idle"]

NoInflight == [i \in Idx |-> 0]

\* outcomes of a write through writeFileAtomic: TRUE when it succeeds
WriteOutcomes == IF faulty THEN BOOLEAN ELSE {TRUE}

\* state.Load: the saved state, or a new one when state.json does not exist
Load == IF stateFile = NoFile
        THEN [PhaseIndex |-> 0, Status |-> StatusRunning]
        ELSE Contents(stateFile)

\* State.Save: what state.json holds after a successful save
Save(idx, status) == <<[PhaseIndex |-> idx, Status |-> status]>>

\* a variant of LoadLoopCounts that starts every process with an empty table
LoadLoopCountsFresh == NoCounts

\* state.LoadLoopCounts
LoadLoopCounts == IF loopFile = NoFile THEN NoCounts ELSE Contents(loopFile)

\* state.SaveLoopCounts: what loop-counts.json holds after a successful save
SaveLoopCounts(counts) == <<counts>>

\* a variant of Advance that steps over a phase
AdvanceTwice(idx) == idx + 2

\* State.Advance
Advance(idx) == idx + 1

\* history of the current process: the phases of its most recent dispatch,
\* those of them whose Dispatch returned a failure, the target of its last
\* on-failure jump until the next dispatch returns, whether a phase was
\* skipped since that jump, the phase index of the runner when the outer
\* context was cancelled during a dispatch (-1: it was not), the phases whose
\* condition was evaluated and met in the current iteration, the number of
\* declared outputs the first CheckOutputs of the current iteration found
\* missing, the re-prompt turns issued in the current iteration
NoHist == [lastDispatched |-> {}, failed |-> {}, jumpTarget |-> -1,
           skipped |-> FALSE, cancelledAt |-> -1, evaluated |-> {},
           missing |-> 0, turns |-> 0, gateCancelled |-> -1,
           jumps |-> 0, budget |-> 0, loaded |-> NoCounts, from |-> NoCounts]

\* the history of the process at the end of an iteration of Run's loop
Iterated(h) == [h EXCEPT !.lastDispatched = {}, !.evaluated = {},
                         !.missing = 0, !.turns = 0]

\* history of the artifacts directory: the phase whose completion was
\* persisted last; whether the persisted index was moved back since (by an
\* on-failure jump or a --retry/--from directive); whether the last process
\* crashed and nothing was completed or redirected since; the phase index at which the last process was cancelled during
\* a dispatch, until a later process has dispatched a phase
NoPast == [lastCompleted |-> -1, rewound |-> FALSE, crashed |-> FALSE,
           interrupted |-> -1]

\* the result of a failed Dispatch as far as it is kept for WriteFeedback:
\* what the feedback file will contain is followed only when observe is
\* "feedback"; otherwise a feedback file is written with contents that are
\* not looked at
Kept(o) == IF observe = "feedback" THEN o ELSE "failed"

\* the part of the history of the artifacts directory that is kept: about
\* completions and crashes when observe is "resume", about cancellations
\* when it is "interrupt", nothing otherwise
Remember(p) ==
    IF observe = "resume" THEN [p EXCEPT !.interrupted = -1]
    ELSE IF observe = "interrupt" THEN [NoPast EXCEPT !.interrupted = p.interrupted]
    ELSE NoPast

\* ------------------------------------------------------------------------
\* The file system under writeFileAtomic (internal/state/atomic.go)
\* ------------------------------------------------------------------------

\* the byte strings a file may be given: each is a prefix of the longer
\* ones, so that a truncated file may look like another complete one
Data == {[k \in 1 .. n |-> k] : n \in 1 .. MaxLen}

\* the target of writeFileAtomic
path == "path"

\* a variant of tmp that names the target itself
tmpIsPath == path

\* tmp := path + ".tmp"
tmp == "path.tmp"

FileNames == {path, tmp}

\* an inode holds the bytes in the page cache and the bytes on the disk; want
\* is the byte string its writer set out to write
NewInode(data) == [cache |-> <<>>, disk |-> <<>>, want |-> data]

WholeInode(data) == [cache |-> data, disk |-> data, want |-> data]

\* the directory in the kernel, and the target's entry of the directory on
\* the disk: the inode the kernel's entry refers to (same), or an older
\* inode, or none
NoNames == [n \in FileNames |-> NoFile]

Agree == [same |-> TRUE, file |-> NoFile]

\* os.ReadFile(n): the bytes of the file in the page cache, NoFile when the
\* name does not exist
ReadFile(f, n) == IF f.names[n] = NoFile THEN NoFile ELSE <<Contents(f.names[n]).cache>>

\* the target as it is on the disk
OnDisk(f) == IF f.stable.same THEN f.names[path] ELSE f.stable.file

\* the file system without the target, and with the target holding old
EmptyFs == [names |-> NoNames, stable |-> Agree]

FsWith(old) == [names |-> [n \in FileNames |-> IF n = path THEN <<WholeInode(old)>>
                                               ELSE NoFile],
                stable |-> Agree]

\* no call in progress; prev and wrote are the contents of the target before
\* the last call and the bytes that call was given
IdleWriter(file) == [at |-> "idle", data |-> <<>>, off |-> 0, prev |-> file, wrote |-> file]

StoreIdle ==
    /\ fs = EmptyFs
    /\ writer = IdleWriter(NoFile)
    /\ seen = NoFile

\* nothing has run and the artifacts directory is empty
\* the zero time.Time
NoTime == 0

\* no call has been made on the Timing
NoCall == [op |-> "", phase |-> ""]

\* a Timing without entries, at an instant that is not the zero time
TimingIdle ==
    /\ Entries = <<>>
    /\ clock = 1
    /\ timingCall = NoCall

\* var result StreamResult
NoResult == [Text |-> <<>>, PermissionDenials |-> <<>>, SessionID |-> ""]

\* no call of processStream
NoStream == [at |-> "idle", ctxErr |-> FALSE, textBuf |-> <<>>, result |-> NoResult,
             err |-> ""]

StreamIdle ==
    /\ stdout = <<>>
    /\ stream = NoStream

\* attended agent phases a workflow is followed over
MaxAgents == 2

\* lines the operator types over a behaviour
MaxTyped == 3

\* before NewStdinReader: no channel, no goroutine
NoReader == [loop |-> "none", line |-> <<>>, lines |-> <<>>, done |-> FALSE]

\* nothing typed, no dispatcher at the terminal, no StdinReader yet
TerminalIdle ==
    /\ stdin = <<>>
    /\ sr = [k \in 1 .. MaxAgents |-> NoReader]
    /\ attended = [at |-> "idle", reader |-> 0]
    /\ typed = 0

NothingRun ==
    /\ TimingIdle
    /\ StreamIdle
    /\ TerminalIdle
    /\ PhaseIndex = 0
    /\ Status = StatusRunning
    /\ loopCounts = NoCounts
    /\ stateFile = NoFile
    /\ loopFile = NoFile
    /\ feedbackFile = NoFeedback
    /\ cancelled = FALSE
    /\ inflight = NoInflight
    /\ outcome = "ok"
    /\ todo = 0
    /\ workers = NoWorkers
    /\ results = <<>>
    /\ firstErr = ""
    /\ subCancelled = FALSE
    /\ ret = "none"
    /\ directive = "none"
    /\ hist = NoHist
    /\ past = NoPast
    /\ environ = <<>>
    /\ envs = [e \in EnvNames |-> NoEnvironment]
    /\ heap = [a \in Addr |-> NoObject]

InitCommon ==
    /\ phases \in Configs
    /\ pc = "stopped"
    /\ NothingRun

Init == InitCommon /\ StoreIdle /\ faulty = FALSE /\ observe = "none"

InitIO == InitCommon /\ StoreIdle /\ faulty = TRUE /\ observe = "none"

InitResume == InitCommon /\ StoreIdle /\ faulty = FALSE /\ observe = "resume"

InitInterrupt == InitCommon /\ StoreIdle /\ faulty = FALSE /\ observe = "interrupt"

InitFeedback == InitCommon /\ StoreIdle /\ faulty = FALSE /\ observe = "feedback"

\* writeFileAtomic on its own: the target is absent or holds any byte string,
\* no orc process runs
InitAtomic ==
    /\ InitCommon
    /\ phases = PlainConfig
    /\ faulty = FALSE
    /\ observe = "none"
    /\ \/ fs = EmptyFs /\ writer = IdleWriter(NoFile)
       \/ \E old \in Data : fs = FsWith(old) /\ writer = IdleWriter(<<old>>)
    /\ seen = ReadFile(fs, path)

\* ------------------------------------------------------------------------
\* runCmd (cmd/orc/main.go): start of an orc process
\* ------------------------------------------------------------------------

\* the values of --retry and of --from (0: flag not given)
Flags == 0 .. NumPhases

\* the memory of a process that has not started: a zero State, no maps, no
\* goroutines, a context that is not cancelled
NoProcess ==
    /\ PhaseIndex' = 0
    /\ Status' = StatusRunning
    /\ loopCounts' = NoCounts
    /\ cancelled' = FALSE
    /\ inflight' = NoInflight
    /\ outcome' = "ok"
    /\ todo' = 0
    /\ workers' = NoWorkers
    /\ results' = <<>>
    /\ firstErr' = ""
    /\ subCancelled' = FALSE
    /\ directive' = "none"
    /\ hist' = NoHist

\* a variant of RunCmd that leaves loop-counts.json as it is under a directive
RunCmdNoReset(retry, from, dryRun) ==
    /\ pc = "stopped"
    /\ UNCHANGED <<frame, stateFile, feedbackFile, loopCounts, cancelled, inflight,
                   seq, par, hist, past, loopFile>>
    /\ IF retry > 0 /\ from > 0
       THEN /\ ret' = "mutually_exclusive"
            /\ pc' = "returned"
            /\ directive' = "both"
            /\ UNCHANGED <<PhaseIndex, Status>>
       ELSE /\ PhaseIndex' = IF dryRun THEN 0
                             ELSE IF retry > 0 THEN retry - 1
                             ELSE IF from > 0 THEN from - 1
                             ELSE Load.PhaseIndex
            /\ Status' = StatusRunning
            /\ directive' = IF retry > 0 \/ from > 0 THEN "restart" ELSE "none"
            /\ IF dryRun
               THEN ret' = "dry_run" /\ pc' = "returned"
               ELSE ret' = "running" /\ pc' = "start"

\* runCmd up to the reset of the loop counts: load the state, apply the
\* directive, reset loop-counts.json under a directive, print the plan and
\* stop under --dry-run (DryRunPrint does not read the state: the index
\* loaded or set by the directive is dropped with the process)
RunCmd(retry, from, dryRun) ==
    /\ pc = "stopped"
    /\ UNCHANGED <<frame, stateFile, feedbackFile, loopCounts, cancelled, inflight,
                   seq, par, hist, past>>
    /\ IF retry > 0 /\ from > 0
       THEN /\ ret' = "mutually_exclusive"
            /\ pc' = "returned"
            /\ directive' = "both"
            /\ UNCHANGED <<PhaseIndex, Status, loopFile>>
       ELSE /\ PhaseIndex' = IF dryRun THEN 0
                             ELSE IF retry > 0 THEN retry - 1
                             ELSE IF from > 0 THEN from - 1
                             ELSE Load.PhaseIndex
            /\ Status' = StatusRunning
            /\ directive' = IF retry > 0 \/ from > 0 THEN "restart" ELSE "none"
            /\ \E ok \in WriteOutcomes :
                 IF (retry > 0 \/ from > 0) /\ ~ok
                 THEN /\ ret' = "reset_error"
                      /\ pc' = "returned"
                      /\ UNCHANGED loopFile
                 ELSE /\ loopFile' = IF retry > 0 \/ from > 0
                                     THEN SaveLoopCounts(NoCounts) ELSE loopFile
                      /\ IF dryRun
                         THEN ret' = "dry_run" /\ pc' = "returned"
                         ELSE ret' = "running" /\ pc' = "start"

\* the process exits after runCmd has returned
Exit ==
    /\ pc = "returned"
    /\ pc' = "stopped"
    /\ ret' = "none"
    /\ NoProcess
    /\ past' = Remember([past EXCEPT !.crashed = FALSE,
                                     !.interrupted = hist.cancelledAt])
    /\ UNCHANGED <<frame, disk>>

\* runCmd from the save of the initial state to the head of Run's loop:
\* st.Save, signal.NotifyContext, then Run's EnsureDir and LoadLoopCounts
RECURSIVE BudgetFrom(_, _)
\* the sum, over the phases from index i on that have an on-failure policy,
\* of max minus the count of the phase in counts
BudgetFrom(counts, i) ==
    IF i = NumPhases THEN 0
    ELSE (IF phases[i].OnFail = NoOnFail THEN 0
          ELSE phases[i].OnFail.Max - counts[Name(i)])
         + BudgetFrom(counts, i + 1)

\* the history of a process whose Run has loaded the loop counts: the
\* backward jumps the counts leave room for are followed only when observe
\* is "jumps"
StartBudget(h) ==
    IF observe = "jumps"
    THEN [h EXCEPT !.budget = BudgetFrom(LoadLoopCounts, 0), !.loaded = LoadLoopCounts]
    ELSE h

\* the history of a process after a backward jump
Jumped(h) ==
    IF observe = "jumps"
    THEN [h EXCEPT !.jumps = @ + 1, !.from[Name(PhaseIndex)] = @ + 1]
    ELSE h

StartRun ==
    /\ pc = "start"
    /\ UNCHANGED <<frame, PhaseIndex, Status, loopFile, feedbackFile, cancelled,
                   inflight, seq, par, directive>>
    /\ \E ok \in WriteOutcomes :
         IF ok
         THEN /\ stateFile' = Save(PhaseIndex, Status)
              /\ loopCounts' = LoadLoopCounts
              /\ hist' = StartBudget(hist)
              /\ pc' = "loop"
              /\ ret' = ret
              /\ past' = Remember([past EXCEPT
                                     !.rewound = @ \/ directive # "none",
                                     !.crashed = @ /\ directive = "none",
                                     !.interrupted = IF directive # "none" THEN -1 ELSE @])
         ELSE /\ pc' = "returned"
              /\ ret' = "save_error"
              /\ UNCHANGED <<stateFile, loopCounts, hist, past>>

\* ------------------------------------------------------------------------
\* Runner.failAndHint and Runner.Run (internal/runner/runner.go)
\* ------------------------------------------------------------------------

\* a variant of failAndHint that sets the status without saving the state
failAndHintUnsaved(status, err) ==
    /\ Status' = status
    /\ UNCHANGED stateFile
    /\ pc' = "returned"
    /\ ret' = err
    /\ past' = Remember([past EXCEPT !.interrupted = -1])
    /\ UNCHANGED PhaseIndex

\* failAndHint: set the status, save the state (a failed save only warns),
\* flush timing, print the resume hint, return err
failAndHint(status, err) ==
    /\ Status' = status
    /\ \E ok \in WriteOutcomes :
         stateFile' = IF ok THEN Save(PhaseIndex, status) ELSE stateFile
    /\ pc' = "returned"
    /\ ret' = err
    /\ past' = Remember([past EXCEPT !.interrupted = -1])
    /\ UNCHANGED PhaseIndex

\* Run from "Handle parallel-with" on, for the phase at index i: hand a pair
\* to runParallel when the partner is later, dispatch the phase otherwise
\* (Validate has checked that the partner exists); met holds the phases whose
\* condition evalCondition has just found met
Proceed(i, met) ==
    LET partnerIdx == PhaseIndexOf(phases[i].ParallelWith) IN
    IF phases[i].ParallelWith # "" /\ partnerIdx > i
    THEN /\ pc' = "parallel"
         /\ workers' = [k \in 1 .. 2 |-> "spawned"]
         /\ results' = <<>>
         /\ firstErr' = ""
         /\ subCancelled' = FALSE
         /\ UNCHANGED inflight
         /\ hist' = [hist EXCEPT !.lastDispatched = {i, partnerIdx}, !.failed = {},
                                 !.evaluated = met]
         /\ UNCHANGED <<mem, disk, seq, ret, past>>
    ELSE /\ pc' = "dispatch"
         /\ inflight' = [inflight EXCEPT ![i] = @ + 1]
         /\ hist' = [hist EXCEPT !.lastDispatched = {i}, !.failed = {},
                                 !.evaluated = met]
         /\ UNCHANGED <<mem, disk, seq, par, ret, past>>

\* a variant of Finish that does not check the error of the final save
FinishUnchecked ==
    /\ pc = "loop"
    /\ ~(PhaseIndex < NumPhases)
    /\ Status' = StatusCompleted
    /\ \E ok \in WriteOutcomes :
         stateFile' = IF ok THEN Save(PhaseIndex, StatusCompleted) ELSE stateFile
    /\ ret' = "nil"
    /\ pc' = "returned"
    /\ UNCHANGED <<frame, PhaseIndex, loopCounts, loopFile, feedbackFile, cancelled,
                   inflight, seq, par, directive, hist, past>>

\* the loop condition fails: status completed, save, flush timing, return nil
Finish ==
    /\ pc = "loop"
    /\ ~(PhaseIndex < NumPhases)
    /\ Status' = StatusCompleted
    /\ \E ok \in WriteOutcomes :
         IF ok
         THEN stateFile' = Save(PhaseIndex, StatusCompleted) /\ ret' = "nil"
         ELSE ret' = "save_error" /\ UNCHANGED stateFile
    /\ pc' = "returned"
    /\ UNCHANGED <<frame, PhaseIndex, loopCounts, loopFile, feedbackFile, cancelled,
                   inflight, seq, par, directive, hist, past>>

\* head of an iteration with the outer context cancelled
LoopCancelled ==
    /\ pc = "loop"
    /\ PhaseIndex < NumPhases
    /\ cancelled
    /\ failAndHint(StatusInterrupted, "cancelled")
    /\ UNCHANGED <<frame, loopCounts, loopFile, feedbackFile, cancelled, inflight,
                   seq, par, directive, hist>>

\* head of an iteration for a phase with a condition: evalCondition starts
LoopCondition ==
    /\ pc = "loop"
    /\ PhaseIndex < NumPhases
    /\ ~cancelled
    /\ phases[PhaseIndex].Condition
    /\ pc' = "cond"
    /\ UNCHANGED <<frame, mem, disk, cancelled, inflight, seq, par, ret, directive,
                   hist, past>>

\* head of an iteration for a phase without a condition
LoopDispatch ==
    /\ pc = "loop"
    /\ PhaseIndex < NumPhases
    /\ ~cancelled
    /\ ~phases[PhaseIndex].Condition
    /\ Proceed(PhaseIndex, {})
    /\ UNCHANGED <<frame, cancelled, directive>>

\* evalCondition returns met (exit status 0 or not): a phase whose condition
\* is not met is skipped (advance, save)
ConditionReturn(met) ==
    /\ pc = "cond"
    /\ UNCHANGED <<frame, cancelled, directive>>
    /\ IF met
       THEN Proceed(PhaseIndex, {PhaseIndex})
       ELSE /\ PhaseIndex' = Advance(PhaseIndex)
            /\ hist' = [hist EXCEPT !.skipped = TRUE]
            /\ UNCHANGED <<Status, loopCounts, loopFile, feedbackFile, inflight, seq,
                           par, past>>
            /\ \E ok \in WriteOutcomes :
                 IF ok
                 THEN /\ stateFile' = Save(PhaseIndex', Status)
                      /\ pc' = "loop"
                      /\ ret' = ret
                 ELSE /\ pc' = "returned"
                      /\ ret' = "save_error"
                      /\ UNCHANGED stateFile

\* a variant of Complete that saves the state before it advances
CompleteSaveFirst(i) ==
    /\ PhaseIndex' = Advance(i)
    /\ Status' = StatusRunning
    /\ stateFile' = Save(i, StatusRunning)
    /\ pc' = "loop"
    /\ ret' = ret
    /\ hist' = Iterated([hist EXCEPT !.jumpTarget = -1])
    /\ past' = Remember([past EXCEPT !.lastCompleted = i, !.rewound = FALSE,
                                      !.crashed = FALSE, !.interrupted = -1])

\* "Completion" of Run for the phase at index i: record and flush timing,
\* advance, status running, save
Complete(i) ==
    /\ PhaseIndex' = Advance(i)
    /\ Status' = StatusRunning
    /\ \E ok \in WriteOutcomes :
         IF ok
         THEN /\ stateFile' = Save(PhaseIndex', StatusRunning)
              /\ pc' = "loop"
              /\ ret' = ret
              /\ hist' = Iterated([hist EXCEPT !.jumpTarget = -1])
              /\ past' = Remember([past EXCEPT !.lastCompleted = i, !.rewound = FALSE,
                                                !.crashed = FALSE, !.interrupted = -1])
         ELSE /\ pc' = "returned"
              /\ ret' = "save_error"
              /\ hist' = [hist EXCEPT !.jumpTarget = -1]
              /\ past' = Remember([past EXCEPT !.interrupted = -1])
              /\ UNCHANGED stateFile

\* a variant of OnFailure whose comparison with max is off by one
OnFailureLate(i) ==
    LET name == Name(i)
        count == loopCounts[name] + 1 IN
    IF count > phases[i].OnFail.Max + 1
    THEN /\ failAndHint(StatusFailed, "max_retries")
         /\ UNCHANGED <<loopCounts, loopFile>>
    ELSE /\ loopCounts' = [loopCounts EXCEPT ![name] = count]
         /\ \E ok \in WriteOutcomes :
              IF ok
              THEN /\ loopFile' = SaveLoopCounts(loopCounts')
                   /\ pc' = "feedback"
                   /\ ret' = ret
                   /\ past' = Remember([past EXCEPT !.interrupted = -1])
                   /\ UNCHANGED <<PhaseIndex, Status, stateFile>>
              ELSE /\ failAndHint(StatusFailed, "save_error")
                   /\ UNCHANGED loopFile

\* a variant of OnFailure that ends the run when the incremented count
\* reaches max
OnFailureEarly(i) ==
    LET name == Name(i)
        count == loopCounts[name] + 1 IN
    IF count >= phases[i].OnFail.Max
    THEN /\ failAndHint(StatusFailed, "max_retries")
         /\ UNCHANGED <<loopCounts, loopFile>>
    ELSE /\ loopCounts' = [loopCounts EXCEPT ![name] = count]
         /\ \E ok \in WriteOutcomes :
              IF ok
              THEN /\ loopFile' = SaveLoopCounts(loopCounts')
                   /\ pc' = "feedback"
                   /\ ret' = ret
                   /\ past' = Remember([past EXCEPT !.interrupted = -1])
                   /\ UNCHANGED <<PhaseIndex, Status, stateFile>>
              ELSE /\ failAndHint(StatusFailed, "save_error")
                   /\ UNCHANGED loopFile

\* a variant of OnFailure that keys the count by the goto target
OnFailureKeyedByGoto(i) ==
    LET name == phases[i].OnFail.Goto
        count == loopCounts[name] + 1 IN
    IF count > phases[i].OnFail.Max
    THEN /\ failAndHint(StatusFailed, "max_retries")
         /\ UNCHANGED <<loopCounts, loopFile>>
    ELSE /\ loopCounts' = [loopCounts EXCEPT ![name] = count]
         /\ \E ok \in WriteOutcomes :
              IF ok
              THEN /\ loopFile' = SaveLoopCounts(loopCounts')
                   /\ pc' = "feedback"
                   /\ ret' = ret
                   /\ past' = Remember([past EXCEPT !.interrupted = -1])
                   /\ UNCHANGED <<PhaseIndex, Status, stateFile>>
              ELSE /\ failAndHint(StatusFailed, "save_error")
                   /\ UNCHANGED loopFile

\* "Handle on-fail" of Run up to SaveLoopCounts, for the failed phase at
\* index i: a count above max is a terminal failure, otherwise the count is
\* stored and the table saved
OnFailure(i) ==
    LET name == Name(i)
        count == loopCounts[name] + 1 IN
    IF count > phases[i].OnFail.Max
    THEN /\ failAndHint(StatusFailed, "max_retries")
         /\ UNCHANGED <<loopCounts, loopFile>>
    ELSE /\ loopCounts' = [loopCounts EXCEPT ![name] = count]
         /\ \E ok \in WriteOutcomes :
              IF ok
              THEN /\ loopFile' = SaveLoopCounts(loopCounts')
                   /\ pc' = "feedback"
                   /\ ret' = ret
                   /\ past' = Remember([past EXCEPT !.interrupted = -1])
                   /\ UNCHANGED <<PhaseIndex, Status, stateFile>>
              ELSE /\ failAndHint(StatusFailed, "save_error")
                   /\ UNCHANGED loopFile

\* a variant of DispatchReturn that records the failure in the loop counts
\* before it looks at the outer context
DispatchReturnCountFirst(o) ==
    LET i == PhaseIndex
        phase == phases[i] IN
    /\ pc = "dispatch"
    /\ outcome' = IF ~cancelled /\ Failed(o) /\ phase.OnFail # NoOnFail
                  /\ loopCounts[Name(i)] + 1 <= phase.OnFail.Max
                  THEN Kept(o) ELSE "ok"
    /\ UNCHANGED <<frame, cancelled, par, directive>>
    /\ IF cancelled
       THEN /\ failAndHint(StatusInterrupted, "cancelled")
            /\ inflight' = [inflight EXCEPT ![i] = @ - 1]
            /\ hist' = [hist EXCEPT !.jumpTarget = -1]
            /\ loopCounts' = IF Failed(o) /\ phase.OnFail # NoOnFail
                             THEN [loopCounts EXCEPT ![Name(i)] = @ + 1]
                             ELSE loopCounts
            /\ loopFile' = IF loopCounts' # loopCounts
                           THEN SaveLoopCounts(loopCounts') ELSE loopFile
            /\ UNCHANGED <<feedbackFile, todo>>
       ELSE IF Failed(o)
       THEN /\ inflight' = [inflight EXCEPT ![i] = @ - 1]
            /\ hist' = [hist EXCEPT !.failed = {i}, !.jumpTarget = -1]
            /\ UNCHANGED <<feedbackFile, todo>>
            /\ IF phase.OnFail # NoOnFail
               THEN OnFailure(i)
               ELSE /\ failAndHint(StatusFailed, "phase_failed")
                    /\ UNCHANGED <<loopCounts, loopFile>>
       ELSE \E missing \in 0 .. phase.Outputs :
            /\ UNCHANGED <<loopCounts, loopFile, feedbackFile>>
            /\ IF missing > 0 /\ phase.Type = "agent"
               THEN /\ pc' = "reprompt"
                    /\ todo' = missing
                    /\ hist' = [hist EXCEPT !.jumpTarget = -1, !.missing = missing]
                    /\ past' = Remember([past EXCEPT !.interrupted = -1])
                    /\ UNCHANGED <<PhaseIndex, Status, stateFile, inflight, ret>>
               ELSE /\ inflight' = [inflight EXCEPT ![i] = @ - 1]
                    /\ todo' = 0
                    /\ IF missing > 0
                       THEN /\ failAndHint(StatusFailed, "missing_outputs")
                            /\ hist' = [hist EXCEPT !.jumpTarget = -1,
                                                    !.missing = missing]
                       ELSE Complete(i)

\* Dispatcher.Dispatch returns o for the phase at r.State.PhaseIndex:
\* classification of the result, check of the declared outputs
DispatchReturn(o) ==
    LET i == PhaseIndex
        phase == phases[i] IN
    /\ pc = "dispatch"
    /\ outcome' = IF ~cancelled /\ Failed(o) /\ phase.OnFail # NoOnFail
                  /\ loopCounts[Name(i)] + 1 <= phase.OnFail.Max
                  THEN Kept(o) ELSE "ok"
    /\ UNCHANGED <<frame, cancelled, par, directive>>
    /\ IF cancelled
       THEN /\ failAndHint(StatusInterrupted, "cancelled")
            /\ inflight' = [inflight EXCEPT ![i] = @ - 1]
            /\ hist' = [hist EXCEPT !.jumpTarget = -1]
            /\ UNCHANGED <<loopCounts, loopFile, feedbackFile, todo>>
       ELSE IF Failed(o)
       THEN /\ inflight' = [inflight EXCEPT ![i] = @ - 1]
            /\ hist' = [hist EXCEPT !.failed = {i}, !.jumpTarget = -1]
            /\ UNCHANGED <<feedbackFile, todo>>
            /\ IF phase.OnFail # NoOnFail
               THEN OnFailure(i)
               ELSE /\ failAndHint(StatusFailed, "phase_failed")
                    /\ UNCHANGED <<loopCounts, loopFile>>
       ELSE \E missing \in 0 .. phase.Outputs :
            /\ UNCHANGED <<loopCounts, loopFile, feedbackFile>>
            /\ IF missing > 0 /\ phase.Type = "agent"
               THEN /\ pc' = "reprompt"
                    /\ todo' = missing
                    /\ hist' = [hist EXCEPT !.jumpTarget = -1, !.missing = missing]
                    /\ past' = Remember([past EXCEPT !.interrupted = -1])
                    /\ UNCHANGED <<PhaseIndex, Status, stateFile, inflight, ret>>
               ELSE /\ inflight' = [inflight EXCEPT ![i] = @ - 1]
                    /\ todo' = 0
                    /\ IF missing > 0
                       THEN /\ failAndHint(StatusFailed, "missing_outputs")
                            /\ hist' = [hist EXCEPT !.jumpTarget = -1,
                                                    !.missing = missing]
                       ELSE Complete(i)

\* dispatch.RunAgentWithPrompt returns for one missing output; after the
\* last one the declared outputs are scanned again
RepromptReturn ==
    LET i == PhaseIndex IN
    /\ pc = "reprompt"
    /\ todo' = todo - 1
    /\ UNCHANGED <<frame, loopCounts, loopFile, feedbackFile, cancelled, outcome, par,
                   directive>>
    /\ IF todo > 1
       THEN /\ hist' = [hist EXCEPT !.turns = @ + 1]
            /\ UNCHANGED <<pc, PhaseIndex, Status, stateFile, inflight, ret, past>>
       ELSE /\ inflight' = [inflight EXCEPT ![i] = @ - 1]
            /\ \E missing \in 0 .. phases[i].Outputs :
                 IF missing > 0
                 THEN /\ failAndHint(StatusFailed, "missing_outputs")
                      /\ hist' = [hist EXCEPT !.turns = @ + 1]
                 ELSE Complete(i)

\* a variant of WriteFeedback that goes on to the jump with the feedback
\* file still to be written
WriteFeedbackLate ==
    /\ pc = "feedback"
    /\ UNCHANGED <<frame, mem, disk, cancelled, inflight, seq, par, directive, hist,
                   past>>
    /\ pc' = "jump"
    /\ ret' = ret

\* a variant of WriteFeedback that writes the captured output also when it
\* is empty
WriteFeedbackNoFallback ==
    LET name == Name(PhaseIndex) IN
    /\ pc = "feedback"
    /\ UNCHANGED <<frame, mem, stateFile, loopFile, cancelled, inflight, seq, par,
                   directive, hist, past>>
    /\ feedbackFile' = [feedbackFile EXCEPT ![name] =
                           IF outcome = "exit_output" THEN "output" ELSE ""]
    /\ pc' = "jump"
    /\ ret' = ret

\* state.WriteFeedback for the failed phase: its captured output, or the
\* error message when the output is empty
WriteFeedback ==
    LET name == Name(PhaseIndex) IN
    /\ pc = "feedback"
    /\ UNCHANGED <<frame, mem, stateFile, loopFile, cancelled, inflight, seq, par,
                   directive, hist, past>>
    /\ \E ok \in WriteOutcomes :
         IF ok
         THEN /\ feedbackFile' = [feedbackFile EXCEPT ![name] =
                                    IF outcome = "exit_output" THEN "output"
                                    ELSE IF outcome = "exit_empty" \/ outcome = "error"
                                    THEN "error" ELSE "written"]
              /\ pc' = "jump"
              /\ ret' = ret
         ELSE /\ pc' = "returned"
              /\ ret' = "feedback_error"
              /\ UNCHANGED feedbackFile

\* a variant of Jump that saves the state without calling SetPhase
JumpWithoutSetPhase ==
    /\ pc = "jump"
    /\ outcome' = "ok"
    /\ UNCHANGED <<frame, mem, loopFile, feedbackFile, cancelled, inflight, todo, par,
                   directive, ret, past>>
    /\ stateFile' = Save(PhaseIndex, Status)
    /\ pc' = "loop"
    /\ hist' = Iterated([hist EXCEPT
                            !.jumpTarget = PhaseIndexOf(phases[PhaseIndex].OnFail.Goto),
                            !.skipped = FALSE, !.failed = {}])

\* the backward jump: resolve on-fail.goto, SetPhase, save
Jump ==
    LET gotoIdx == PhaseIndexOf(phases[PhaseIndex].OnFail.Goto) IN
    /\ pc = "jump"
    /\ outcome' = "ok"
    /\ UNCHANGED <<frame, Status, loopCounts, loopFile, feedbackFile, cancelled,
                   inflight, todo, par, directive>>
    /\ PhaseIndex' = gotoIdx
    /\ \E ok \in WriteOutcomes :
         IF ok
         THEN /\ stateFile' = Save(gotoIdx, Status)
              /\ pc' = "loop"
              /\ ret' = ret
              /\ hist' = Jumped(Iterated([hist EXCEPT !.jumpTarget = gotoIdx,
                                                      !.skipped = FALSE,
                                                      !.failed = {}]))
              /\ past' = Remember([past EXCEPT !.rewound = TRUE])
         ELSE /\ pc' = "returned"
              /\ ret' = "save_error"
              /\ hist' = Jumped(hist)
              /\ UNCHANGED <<stateFile, past>>

\* ------------------------------------------------------------------------
\* Runner.runParallel
\* ------------------------------------------------------------------------

\* the phase worker k dispatches: idx1 for the first goroutine, idx2 for the
\* second
WorkerPhase(k) ==
    IF k = 1 THEN PhaseIndex ELSE PhaseIndexOf(phases[PhaseIndex].ParallelWith)

\* a worker goroutine is scheduled for the first time: it copies r.Env and
\* calls Dispatch
WorkerStart(k) ==
    /\ pc = "parallel"
    /\ workers[k] = "spawned"
    /\ workers' = [workers EXCEPT ![k] = "running"]
    /\ inflight' = [inflight EXCEPT ![WorkerPhase(k)] = @ + 1]
    /\ UNCHANGED <<frame, pc, mem, disk, cancelled, seq, results, firstErr,
                   subCancelled, ret, directive, hist, past>>

\* a worker goroutine: its Dispatch returns o and the result is sent on the
\* results channel (the coordinator reads of a result only whether it failed)
WorkerReturn(k, o) ==
    /\ pc = "parallel"
    /\ workers[k] = "running"
    /\ workers' = [workers EXCEPT ![k] = "done"]
    /\ results' = Append(results, [idx |-> WorkerPhase(k), failed |-> Failed(o)])
    /\ inflight' = [inflight EXCEPT ![WorkerPhase(k)] = @ - 1]
    /\ hist' = IF Failed(o) THEN [hist EXCEPT !.failed = @ \cup {WorkerPhase(k)}]
               ELSE hist
    /\ UNCHANGED <<frame, pc, mem, disk, cancelled, seq, firstErr, subCancelled, ret,
                   directive, past>>

\* a variant of CoordinatorReceive that records the failure without
\* cancelling the subordinate context
CoordinatorReceiveNoCancel ==
    LET pr == Head(results) IN
    /\ pc = "parallel"
    /\ results # <<>>
    /\ results' = Tail(results)
    /\ firstErr' = IF pr.failed /\ firstErr = "" THEN Name(pr.idx) ELSE firstErr
    /\ UNCHANGED <<frame, pc, mem, disk, cancelled, inflight, seq, workers,
                   subCancelled, ret, directive, hist, past>>

\* a variant of CoordinatorReceive in which the result received last decides
CoordinatorReceiveLastWins ==
    LET pr == Head(results) IN
    /\ pc = "parallel"
    /\ results # <<>>
    /\ results' = Tail(results)
    /\ firstErr' = IF pr.failed THEN Name(pr.idx) ELSE ""
    /\ subCancelled' = (subCancelled \/ pr.failed)
    /\ UNCHANGED <<frame, pc, mem, disk, cancelled, inflight, seq, workers, ret,
                   directive, hist, past>>

\* one iteration of "for pr := range results": a failed result cancels the
\* subordinate context and sets firstErr if it is not set
CoordinatorReceive ==
    LET pr == Head(results) IN
    /\ pc = "parallel"
    /\ results # <<>>
    /\ results' = Tail(results)
    /\ IF pr.failed
       THEN /\ subCancelled' = TRUE
            /\ firstErr' = IF firstErr = "" THEN Name(pr.idx) ELSE firstErr
       ELSE UNCHANGED <<subCancelled, firstErr>>
    /\ UNCHANGED <<frame, pc, mem, disk, cancelled, inflight, seq, workers, ret,
                   directive, hist, past>>

\* a variant of Joined that waits for one goroutine only
JoinedEarly == \E k \in 1 .. 2 : workers[k] = "done"

\* wg.Wait() has returned: both goroutines have called wg.Done, so the
\* results channel is closed
Joined == \A k \in 1 .. 2 : workers[k] = "done"

\* a variant of ParallelEnd that sets the index past the pair and saves
\* before it checks the declared outputs
ParallelEndAdvanceFirst ==
    LET idx1 == PhaseIndex
        idx2 == PhaseIndexOf(phases[PhaseIndex].ParallelWith) IN
    /\ pc = "parallel"
    /\ Joined
    /\ results = <<>>
    /\ workers' = NoWorkers
    /\ subCancelled' = TRUE
    /\ UNCHANGED <<frame, loopCounts, loopFile, feedbackFile, cancelled, inflight, seq,
                   results, firstErr, directive>>
    /\ IF firstErr # ""
       THEN /\ IF cancelled
               THEN failAndHint(StatusInterrupted, "cancelled")
               ELSE failAndHint(StatusFailed, "parallel_failed")
            /\ hist' = [hist EXCEPT !.jumpTarget = -1]
       ELSE \E missing1 \in 0 .. phases[idx1].Outputs,
               missing2 \in 0 .. phases[idx2].Outputs :
            LET missing == IF missing1 > 0 THEN missing1 ELSE missing2 IN
            /\ missing1 > 0 => missing2 = 0
            /\ PhaseIndex' = IF idx2 > idx1 THEN idx2 + 1 ELSE idx1 + 1
            /\ IF missing > 0
               THEN /\ Status' = StatusFailed
                    /\ stateFile' = Save(PhaseIndex', StatusFailed)
                    /\ pc' = "returned"
                    /\ ret' = "missing_outputs"
                    /\ hist' = [hist EXCEPT !.jumpTarget = -1, !.missing = missing]
                    /\ past' = Remember([past EXCEPT !.interrupted = -1])
               ELSE /\ UNCHANGED Status
                    /\ stateFile' = Save(PhaseIndex', Status)
                    /\ pc' = "loop"
                    /\ ret' = ret
                    /\ hist' = Iterated([hist EXCEPT !.jumpTarget = -1])
                    /\ past' = Remember([past EXCEPT !.lastCompleted = idx2,
                                                     !.rewound = FALSE,
                                                     !.crashed = FALSE,
                                                     !.interrupted = -1])

\* runParallel after the range loop (both workers are done, the channel is
\* closed and drained): report the failure, or check the declared outputs of
\* both phases, set the index past the later phase and save
ParallelEnd ==
    LET idx1 == PhaseIndex
        idx2 == PhaseIndexOf(phases[PhaseIndex].ParallelWith) IN
    /\ pc = "parallel"
    /\ Joined
    /\ results = <<>>
    /\ workers' = NoWorkers
    /\ subCancelled' = TRUE
    /\ UNCHANGED <<frame, loopCounts, loopFile, feedbackFile, cancelled, inflight, seq,
                   results, firstErr, directive>>
    /\ IF firstErr # ""
       THEN /\ IF cancelled
               THEN failAndHint(StatusInterrupted, "cancelled")
               ELSE failAndHint(StatusFailed, "parallel_failed")
            /\ hist' = [hist EXCEPT !.jumpTarget = -1]
       ELSE \E missing1 \in 0 .. phases[idx1].Outputs,
               missing2 \in 0 .. phases[idx2].Outputs :
            LET missing == IF missing1 > 0 THEN missing1 ELSE missing2 IN
            /\ missing1 > 0 => missing2 = 0
            /\ IF missing > 0
               THEN /\ failAndHint(StatusFailed, "missing_outputs")
                    /\ hist' = [hist EXCEPT !.jumpTarget = -1, !.missing = missing]
               ELSE /\ PhaseIndex' = IF idx2 > idx1 THEN idx2 + 1 ELSE idx1 + 1
                    /\ UNCHANGED Status
                    /\ \E ok \in WriteOutcomes :
                         IF ok
                         THEN /\ stateFile' = Save(PhaseIndex', Status)
                              /\ pc' = "loop"
                              /\ ret' = ret
                              /\ hist' = Iterated([hist EXCEPT !.jumpTarget = -1])
                              /\ past' = Remember([past EXCEPT
                                                     !.lastCompleted = idx2,
                                                     !.rewound = FALSE,
                                                     !.crashed = FALSE,
                                                     !.interrupted = -1])
                         ELSE /\ pc' = "returned"
                              /\ ret' = "save_error"
                              /\ hist' = [hist EXCEPT !.jumpTarget = -1]
                              /\ past' = Remember([past EXCEPT !.interrupted = -1])
                              /\ UNCHANGED stateFile

\* ------------------------------------------------------------------------
\* Environment: signals and crashes
\* ------------------------------------------------------------------------

\* SIGINT, SIGTERM or SIGHUP after signal.NotifyContext: the outer context
\* is cancelled
Cancel ==
    /\ pc \notin {"stopped", "start", "returned"}
    /\ ~cancelled
    /\ cancelled' = TRUE
    /\ hist' = [hist EXCEPT !.cancelledAt =
                   IF \E i \in Idx : inflight[i] > 0 THEN PhaseIndex ELSE -1]
    /\ UNCHANGED <<frame, pc, mem, disk, inflight, seq, par, ret, directive, past>>

\* the process dies (kill -9, power loss): its memory is gone, the files stay
Crash ==
    /\ pc \notin {"stopped", "returned"}
    /\ pc' = "stopped"
    /\ ret' = "none"
    /\ NoProcess
    /\ past' = Remember([past EXCEPT !.crashed = TRUE, !.interrupted = -1])
    /\ UNCHANGED <<frame, disk>>

\* the flag combinations of orc run: --retry N and --from N have the same
\* effect, so one value stands for both when they are given together
FlagPairs == {fl \in Flags \X Flags : fl[1] = 0 \/ fl[2] = 0 \/ fl = <<1, 1>>}

Next ==
    \/ \E fl \in FlagPairs, dryRun \in BOOLEAN : RunCmd(fl[1], fl[2], dryRun)
    \/ Exit
    \/ StartRun
    \/ Finish
    \/ LoopCancelled
    \/ LoopCondition
    \/ LoopDispatch
    \/ \E met \in BOOLEAN : ConditionReturn(met)
    \/ \E o \in Outcomes : DispatchReturn(o)
    \/ RepromptReturn
    \/ WriteFeedback
    \/ Jump
    \/ \E k \in 1 .. 2 : WorkerStart(k)
    \/ \E k \in 1 .. 2, o \in Outcomes : WorkerReturn(k, o)
    \/ CoordinatorReceive
    \/ ParallelEnd
    \/ Cancel
    \/ Crash

\* the steps of the process itself: returns of conditions and dispatches,
\* and what Run, runParallel and main do between them
RunnerStep ==
    \/ Exit
    \/ StartRun
    \/ Finish
    \/ LoopCancelled
    \/ LoopCondition
    \/ LoopDispatch
    \/ \E met \in BOOLEAN : ConditionReturn(met)
    \/ \E o \in Outcomes : DispatchReturn(o)
    \/ RepromptReturn
    \/ WriteFeedback
    \/ Jump
    \/ \E k \in 1 .. 2 : WorkerStart(k)
    \/ \E k \in 1 .. 2, o \in Outcomes : WorkerReturn(k, o)
    \/ CoordinatorReceive
    \/ ParallelEnd

\* the engine on a file system whose writes succeed
Spec == Init /\ [][Next]_vars

\* the engine on a file system whose writes may fail, every evaluation of a
\* condition and every dispatch returning and the process going on while it
\* can; the room for backward jumps is followed
InitLive == InitCommon /\ StoreIdle /\ faulty = TRUE /\ observe = "jumps"

SpecLive == InitLive /\ [][Next]_vars /\ WF_vars(RunnerStep)

\* the same engine with nothing assumed of its progress
SpecJumps == InitLive /\ [][Next]_vars

\* the engine on a file system whose writes may fail
SpecIO == InitIO /\ [][Next]_vars

\* the engine with the history of the artifacts directory observed
SpecResume == InitResume /\ [][Next]_vars

SpecInterrupt == InitInterrupt /\ [][Next]_vars

\* the engine with the contents of the feedback files observed
SpecFeedback == InitFeedback /\ [][Next]_vars

\* ------------------------------------------------------------------------
\* writeFileAtomic, its readers, and the crashes of its writer
\* ------------------------------------------------------------------------

runner == <<config, pc, mem, disk, cancelled, inflight, seq, par, ret, directive,
            hist, past>>

\* the name n is given to file (an inode, or NoFile to remove the name); the
\* directory on the disk keeps what it had
Link(f, n, file) ==
    [names |-> [f.names EXCEPT ![n] = file],
     stable |-> IF n = path /\ f.stable.same
                THEN [same |-> FALSE, file |-> f.names[path]]
                ELSE f.stable]

\* os.Remove(n)
Remove(f, n) == IF f.names[n] = NoFile THEN f ELSE Link(f, n, NoFile)

\* writeFileAtomic(path, data, perm) up to the return of os.OpenFile: the
\* temporary file is created, or truncated when a crashed writer left it
OpenFile(data) ==
    /\ writer.at = "idle"
    /\ writer' = [at |-> "opened", data |-> data, off |-> 0,
                  prev |-> ReadFile(fs, path), wrote |-> <<data>>]
    /\ fs' = IF fs.names[tmp] = NoFile
             THEN Link(fs, tmp, <<NewInode(data)>>)
             ELSE [fs EXCEPT !.names[tmp] =
                     <<[Contents(@) EXCEPT !.cache = <<>>, !.want = data]>>]
    /\ UNCHANGED <<runner, environment, seen>>

\* f.Write(data), one byte reaching the page cache at a time
Write ==
    /\ writer.at = "opened"
    /\ fs' = [fs EXCEPT !.names[tmp] =
                <<[Contents(@) EXCEPT !.cache = Append(@, writer.data[writer.off + 1])]>>]
    /\ writer' = [writer EXCEPT !.off = @ + 1,
                                !.at = IF writer.off + 1 = Len(writer.data)
                                       THEN "written" ELSE "opened"]
    /\ UNCHANGED <<runner, environment, seen>>

\* f.Sync(): the bytes of the temporary file are on the disk
Sync ==
    /\ writer.at = "written"
    /\ fs' = [fs EXCEPT !.names[tmp] =
                <<[Contents(@) EXCEPT !.disk = Contents(fs.names[tmp]).cache]>>]
    /\ writer' = [writer EXCEPT !.at = "synced"]
    /\ UNCHANGED <<runner, environment, seen>>

\* f.Close()
Close ==
    /\ writer.at = "synced"
    /\ writer' = [writer EXCEPT !.at = "closed"]
    /\ UNCHANGED <<runner, environment, fs, seen>>

\* os.Rename(tmp, path): the target name refers to the inode of the temporary
\* file, the temporary name is gone; writeFileAtomic returns nil
Rename ==
    /\ writer.at = "closed"
    /\ fs' = IF tmp = path THEN fs
             ELSE Link(Link(fs, path, fs.names[tmp]), tmp, NoFile)
    /\ writer' = IdleWriter(writer.wrote)
    /\ UNCHANGED <<runner, environment, seen>>

\* Write, Sync, Close or Rename returns an error: the temporary file is
\* removed and writeFileAtomic returns the error
Fail ==
    /\ writer.at \in {"opened", "written", "synced", "closed"}
    /\ fs' = Remove(fs, tmp)
    /\ writer' = IdleWriter(writer.prev)
    /\ UNCHANGED <<runner, environment, seen>>

\* the kernel writes bytes of the file named n back to the disk: k of them
\* are there afterwards
FlushData(n, k) ==
    LET ino == Contents(fs.names[n])
        len == Len(ino.disk) IN
    /\ fs.names[n] # NoFile
    /\ k <= Len(ino.cache)
    /\ ino.disk # SubSeq(ino.cache, 1, k)
    /\ len <= Len(ino.cache) /\ ino.disk = SubSeq(ino.cache, 1, len) => k > len
    /\ fs' = [fs EXCEPT !.names[n] = <<[ino EXCEPT !.disk = SubSeq(ino.cache, 1, k)]>>]
    /\ UNCHANGED <<runner, environment, writer, seen>>

\* the kernel writes the directory back to the disk
FlushNames ==
    /\ ~fs.stable.same
    /\ fs' = [fs EXCEPT !.stable = Agree]
    /\ UNCHANGED <<runner, environment, writer, seen>>

\* a reader reads the target
Read ==
    /\ seen' = ReadFile(fs, path)
    /\ seen' # seen
    /\ UNCHANGED <<runner, environment, fs, writer>>

\* the writing process is killed during a call: the file system stays as it is
WriterCrash ==
    /\ writer.at # "idle"
    /\ writer' = [writer EXCEPT !.at = "idle", !.data = <<>>, !.off = 0]
    /\ UNCHANGED <<runner, environment, fs, seen>>

\* the machine loses power: what was not written back is lost
PowerLoss ==
    LET file == OnDisk(fs) IN
    /\ fs' = [names |-> [n \in FileNames |->
                           IF n # path \/ file = NoFile THEN NoFile
                           ELSE <<[Contents(file) EXCEPT !.cache = Contents(file).disk]>>],
              stable |-> Agree]
    /\ fs' # fs \/ writer.at # "idle"
    /\ writer' = IdleWriter(ReadFile(fs', path))
    /\ UNCHANGED <<runner, environment, seen>>

NextAtomic ==
    \/ \E data \in Data : OpenFile(data)
    \/ Write
    \/ Sync
    \/ Close
    \/ Rename
    \/ Fail
    \/ \E n \in FileNames, k \in 0 .. MaxLen : FlushData(n, k)
    \/ FlushNames
    \/ Read
    \/ WriterCrash
    \/ PowerLoss

SpecAtomic == InitAtomic /\ [][NextAtomic]_vars

\* os.WriteFile(state.PromptPath(...), rendered, 0644) of RunAgent up to the
\* return of its open with O_WRONLY|O_CREATE|O_TRUNC: the target itself is
\* created, or truncated when it exists
WriteFileOpen(data) ==
    /\ writer.at = "idle"
    /\ writer' = [at |-> "direct", data |-> data, off |-> 0,
                  prev |-> ReadFile(fs, path), wrote |-> <<data>>]
    /\ fs' = IF fs.names[path] = NoFile
             THEN Link(fs, path, <<NewInode(data)>>)
             ELSE [fs EXCEPT !.names[path] =
                     <<[Contents(@) EXCEPT !.cache = <<>>, !.want = data]>>]
    /\ UNCHANGED <<runner, environment, seen>>

\* its f.Write(data), one byte reaching the page cache of the target at a time
WriteFileWrite ==
    /\ writer.at = "direct"
    /\ fs' = [fs EXCEPT !.names[path] =
                <<[Contents(@) EXCEPT !.cache = Append(@, writer.data[writer.off + 1])]>>]
    /\ writer' = [writer EXCEPT !.off = @ + 1,
                                !.at = IF writer.off + 1 = Len(writer.data)
                                       THEN "directWritten" ELSE "direct"]
    /\ UNCHANGED <<runner, environment, seen>>

\* its f.Close(): os.WriteFile returns nil
WriteFileClose ==
    /\ writer.at = "directWritten"
    /\ writer' = IdleWriter(writer.wrote)
    /\ UNCHANGED <<runner, environment, fs, seen>>

\* the rendered prompt of a phase is saved by one RunAgent after another
NextPrompt ==
    \/ \E data \in Data : WriteFileOpen(data)
    \/ WriteFileWrite
    \/ WriteFileClose
    \/ \E k \in 0 .. MaxLen : FlushData(path, k)
    \/ FlushNames
    \/ Read
    \/ WriterCrash
    \/ PowerLoss

SpecPrompt == InitAtomic /\ [][NextPrompt]_vars

\* ------------------------------------------------------------------------
\* The Environment of a process, the copies of runParallel and of Clone
\* ------------------------------------------------------------------------

\* runCmd builds the Environment: CustomVars stays nil when the configuration
\* has no vars and is a new map otherwise; filteredEnv is nil
NewEnvironment(cfgVars, osEnviron) ==
    /\ ~envs["r"].live
    /\ environ' = osEnviron
    /\ IF cfgVars = NoVars
       THEN /\ envs' = [envs EXCEPT !["r"] = [NoEnvironment EXCEPT !.live = TRUE]]
            /\ heap' = heap
       ELSE /\ envs' = [envs EXCEPT !["r"] = [NoEnvironment EXCEPT !.live = TRUE,
                                                               !.CustomVars = New(heap)]]
            /\ heap' = [heap EXCEPT ![New(heap)] = [kind |-> "map", m |-> cfgVars]]
    /\ UNCHANGED <<runner, aside, fs, writer, seen>>

\* BuildEnv(env) with env.filteredEnv nil: the filtered os.Environ() is
\* appended to it entry by entry; the slice returned to the caller is a new
\* one and is not kept
BuildEnv(e) ==
    LET s == FilterEnv(environ) IN
    /\ envs[e].live
    /\ envs[e].filteredEnv.arr = nil
    /\ s # <<>>
    /\ Free(heap) # {}
    /\ heap' = [heap EXCEPT ![New(heap)] = [kind |-> "array", elems |-> s,
                                            cap |-> CapAfter(Len(s))]]
    /\ envs' = [envs EXCEPT ![e].filteredEnv = [arr |-> New(heap), len |-> Len(s)]]
    /\ UNCHANGED <<runner, aside, fs, writer, seen, environ>>

\* a goroutine of runParallel: env := *r.Env; env.PhaseIndex = idx
WorkerCopy(w, idx) ==
    /\ envs["r"].live
    /\ ~envs[w].live
    /\ envs' = [envs EXCEPT ![w] = [envs["r"] EXCEPT !.PhaseIndex = idx]]
    /\ UNCHANGED <<runner, aside, fs, writer, seen, environ, heap>>

\* cp := env.Clone() of the tests of Clone
CloneEnv ==
    /\ envs["r"].live
    /\ ~envs["cp"].live
    /\ Cardinality(Free(heap)) >= 2
    /\ envs' = [envs EXCEPT !["cp"] = Clone(envs["r"], heap).env]
    /\ heap' = Clone(envs["r"], heap).heap
    /\ UNCHANGED <<runner, aside, fs, writer, seen, environ>>

\* env.CustomVars[k] = v by the holder of the Environment e
SetVar(e, k, v) ==
    /\ envs[e].live
    /\ envs[e].CustomVars # nil
    /\ heap' = [heap EXCEPT ![envs[e].CustomVars].m[k] = v]
    /\ UNCHANGED <<runner, aside, fs, writer, seen, environ, envs>>

\* env.filteredEnv = append(env.filteredEnv, v) by the holder of the
\* Environment e: in place when the backing array has room, in a new array
\* otherwise
AppendEntry(e, v) ==
    LET s == envs[e].filteredEnv
        o == heap[s.arr] IN
    /\ envs[e].live
    /\ s.arr # nil
    /\ s.len < Len(FilterEnv(environ)) + MaxAppends
    /\ IF s.len < o.cap
       THEN /\ heap' = [heap EXCEPT ![s.arr].elems =
                           IF Len(@) > s.len THEN [@ EXCEPT ![s.len + 1] = v]
                           ELSE Append(@, v)]
            /\ envs' = [envs EXCEPT ![e].filteredEnv.len = s.len + 1]
       ELSE /\ Free(heap) # {}
            /\ heap' = [heap EXCEPT ![New(heap)] =
                           [kind |-> "array",
                            elems |-> Append(SubSeq(o.elems, 1, s.len), v),
                            cap |-> AppendCap(s.len, o.cap)]]
            /\ envs' = [envs EXCEPT ![e].filteredEnv = [arr |-> New(heap),
                                                         len |-> s.len + 1]]
    /\ UNCHANGED <<runner, aside, fs, writer, seen, environ>>

NextEnv ==
    \/ \E cfgVars \in ConfigVars, osEnviron \in Environs :
          NewEnvironment(cfgVars, osEnviron)
    \/ \E e \in EnvNames : BuildEnv(e)
    \/ WorkerCopy("env1", 0)
    \/ WorkerCopy("env2", PhaseIndexOf(phases[0].ParallelWith))
    \/ CloneEnv
    \/ \E e \in EnvNames, k \in Keys : SetVar(e, k, "changed")
    \/ \E e \in EnvNames, v \in Extras : AppendEntry(e, v)

\* no orc process yet; the first phase of the configuration names the second
\* as its parallel partner
InitEnv == Init /\ phases = [PlainConfig EXCEPT ![0].ParallelWith = Name(1)]

\* the Environment and its copies on their own
SpecEnv == InitEnv /\ [][NextEnv]_vars

\* ------------------------------------------------------------------------
\* Gates: RunGate waits for the operator's line or for its context
\* ------------------------------------------------------------------------

\* a gate phase with no optional field set
GatePhase == [PlainPhase EXCEPT !.Type = "gate"]

\* the configurations with one gate: on its own, naming a partner, or named
\* as the partner of a script phase
GateConfigs ==
    {[PlainConfig EXCEPT ![g] = GatePhase] : g \in Idx}
    \cup {[PlainConfig EXCEPT ![g] = [GatePhase EXCEPT !.ParallelWith = Name(j)]] :
            <<g, j>> \in {q \in Idx \X Idx : q[1] # q[2]}}
    \cup {[PlainConfig EXCEPT ![g] = GatePhase, ![i].ParallelWith = Name(g)] :
            <<g, i>> \in {q \in Idx \X Idx : q[1] > q[2]}}

\* the phase at index g is a gate whose RunGate has been called and has not
\* returned
GateBlocked(g) == phases[g].Type = "gate" /\ inflight[g] > 0

\* ctx.Done() of the context RunGate was given is closed: the outer context,
\* or the subordinate context of runParallel, which ends with the outer one
GateCtxDone == cancelled \/ (pc = "parallel" /\ subCancelled)

\* a variant of GateCancelled for a RunGate that waits for the line only
GateCancelledNever(k) == FALSE /\ UNCHANGED vars

\* "case <-ctx.Done()" of RunGate: it returns exit code 1 with the output
\* "Gate cancelled", to Run (k = 0) or to the goroutine k of runParallel
GateCancelled(k) ==
    LET g == IF k = 0 THEN PhaseIndex ELSE WorkerPhase(k)
        done == IF cancelled THEN g ELSE hist.gateCancelled IN
    /\ pc = IF k = 0 THEN "dispatch" ELSE "parallel"
    /\ k # 0 => workers[k] = "running"
    /\ GateBlocked(g)
    /\ GateCtxDone
    /\ inflight' = [inflight EXCEPT ![g] = @ - 1]
    /\ UNCHANGED <<frame, loopCounts, loopFile, feedbackFile, cancelled, seq, firstErr,
                   subCancelled, directive>>
    /\ IF k = 0
       THEN /\ failAndHint(StatusInterrupted, "cancelled")
            /\ hist' = [hist EXCEPT !.jumpTarget = -1, !.gateCancelled = done]
            /\ UNCHANGED <<workers, results>>
       ELSE /\ workers' = [workers EXCEPT ![k] = "done"]
            /\ results' = Append(results, [idx |-> g, failed |-> TRUE])
            /\ hist' = [hist EXCEPT !.failed = @ \cup {g}, !.gateCancelled = done]
            /\ UNCHANGED <<pc, mem, stateFile, ret, past>>

\* no orc process yet; the workflow has a gate
InitGate ==
    /\ phases \in GateConfigs
    /\ pc = "stopped"
    /\ NothingRun
    /\ StoreIdle
    /\ faulty = FALSE
    /\ observe = "none"

\* the runner on a workflow with a gate: RunGate returns through
\* DispatchReturn and WorkerReturn on the operator's line, and through
\* GateCancelled on its context
NextGate ==
    \/ \E fl \in FlagPairs, dryRun \in BOOLEAN : RunCmd(fl[1], fl[2], dryRun)
    \/ Exit
    \/ StartRun
    \/ Finish
    \/ LoopCancelled
    \/ LoopDispatch
    \/ \E o \in Outcomes : DispatchReturn(o)
    \/ \E k \in 1 .. 2 : WorkerStart(k)
    \/ \E k \in 1 .. 2, o \in Outcomes : WorkerReturn(k, o)
    \/ CoordinatorReceive
    \/ ParallelEnd
    \/ Cancel
    \/ Crash
    \/ \E k \in 0 .. 2 : GateCancelled(k)

\* the select of RunGate is taken once one of its cases can proceed; nothing
\* is assumed of the operator
SpecGate ==
    InitGate /\ [][NextGate]_vars /\ WF_vars(\E k \in 0 .. 2 : GateCancelled(k))

\* ------------------------------------------------------------------------
\* Validate on the configuration as written
\* ------------------------------------------------------------------------

\* a name no phase carries
UnknownName == "zz"

\* the max of on-fail as written: negative, unset, the smallest positive, and
\* one above the largest the runner is followed with
RawMaxes == {-1, 0, 1, MaxRetries + 1}

\* on-fail as written (a block with neither goto nor max stands with the
\* blocks without goto)
RawOnFails ==
    {NoOnFail} \cup ([Goto : Names \cup {"", UnknownName}, Max : RawMaxes] \ {NoOnFail})

\* phases as written: with on-fail, with parallel-with, or with both (the
\* policy then with the goto of a phase and no max)
RawPhases ==
    {[PlainPhase EXCEPT !.OnFail = o] : o \in RawOnFails}
    \cup {[PlainPhase EXCEPT !.ParallelWith = w] : w \in Names \cup {UnknownName}}
    \cup {[PlainPhase EXCEPT !.OnFail = [Goto |-> g, Max |-> 0], !.ParallelWith = w] :
            <<g, w>> \in Names \X Names}

\* the configurations as written: at most two phases differ from the plain one
RawConfigs ==
    {[[PlainConfig EXCEPT ![i1] = q1] EXCEPT ![i2] = q2] :
        <<i1, q1, i2, q2>> \in Idx \X RawPhases \X Idx \X RawPhases}

\* the max Validate gives a policy that has none
DefaultMax == 2

\* the checks of Validate on the phase at index i, in the order of the code:
\* the error returned, "" when there is none
CheckPhase(cfg, i) ==
    LET p == cfg[i] IN
    IF p.OnFail # NoOnFail /\ p.OnFail.Goto = ""
    THEN "goto_required"
    ELSE IF p.OnFail # NoOnFail /\ ~(\E j \in 0 .. (i - 1) : Name(j) = p.OnFail.Goto)
    THEN "goto_not_earlier"
    ELSE IF p.ParallelWith # "" /\ ~phaseExists(p.ParallelWith)
    THEN "unknown_partner"
    ELSE IF p.ParallelWith # "" /\ p.OnFail # NoOnFail
    THEN "parallel_with_on_fail"
    ELSE ""

\* a variant of SetDefaults that leaves max as written
SetDefaultsNone(cfg, i) == cfg

\* the default Validate sets on the phase at index i
SetDefaults(cfg, i) ==
    IF cfg[i].OnFail # NoOnFail /\ cfg[i].OnFail.Max <= 0
    THEN [cfg EXCEPT ![i].OnFail.Max = DefaultMax]
    ELSE cfg

RECURSIVE ValidateFrom(_, _)
\* the loop of Validate over the phases from index i on: the first error ends
\* it, with the defaults of the phases before set
ValidateFrom(cfg, i) ==
    IF i = NumPhases
    THEN [err |-> "", phases |-> cfg]
    ELSE IF CheckPhase(cfg, i) # ""
    THEN [err |-> CheckPhase(cfg, i),
          phases |-> IF CheckPhase(cfg, i) \in {"goto_required", "goto_not_earlier"}
                     THEN cfg ELSE SetDefaults(cfg, i)]
    ELSE ValidateFrom(SetDefaults(cfg, i), i + 1)

\* config.Validate: the error and the configuration as Validate leaves it
ValidateConfig(cfg) == ValidateFrom(cfg, 0)

\* Validate accepts each configuration the runner is followed with, and
\* leaves it as it is
ConfigsAccepted == \A c \in Configs : ValidateConfig(c) = [err |-> "", phases |-> c]

\* the configuration is loaded: orc goes on with what Validate accepts and
\* exits with the error otherwise
LoadConfig ==
    LET v == ValidateConfig(phases) IN
    /\ pc = "config"
    /\ phases' = v.phases
    /\ pc' = IF v.err = "" THEN "stopped" ELSE "rejected"
    /\ ret' = IF v.err = "" THEN ret ELSE v.err
    /\ UNCHANGED <<fs, writer, seen, observe, faulty, environment, mem, disk,
                   cancelled, inflight, outcome, todo, par, directive, hist, past>>

\* orc.yaml as written, not loaded yet
InitValidate ==
    /\ phases \in RawConfigs
    /\ pc = "config"
    /\ NothingRun
    /\ StoreIdle
    /\ faulty = FALSE
    /\ observe = "none"

NextValidate == LoadConfig

SpecValidate == InitValidate /\ [][NextValidate]_vars

\* The timing ledger
\* ------------------------------------------------------------------------

\* number of entries the ledger is followed up to
MaxEntries == 3

\* the last instant of the clock
MaxClock == 61

\* formatDuration(d), d in seconds: the minutes and the seconds of "%dm %02ds"
formatDuration(d) == <<d \div 60, d % 60>>

\* a variant of LatestOpen that searches from the first entry up
RECURSIVE EarliestOpen(_, _, _)
EarliestOpen(es, phaseName, i) ==
    IF i = 0 THEN 0
    ELSE LET j == Len(es) - i + 1 IN
         IF es[j].Phase = phaseName /\ es[j].End = NoTime THEN j
         ELSE EarliestOpen(es, phaseName, i - 1)

\* the index AddEnd's loop stops at, searching from index i down: the last
\* entry of the phase whose End is zero, or 0 when the loop runs out
RECURSIVE LatestOpen(_, _, _)
LatestOpen(es, phaseName, i) ==
    IF i = 0 THEN 0
    ELSE IF es[i].Phase = phaseName /\ es[i].End = NoTime THEN i
    ELSE LatestOpen(es, phaseName, i - 1)

\* t.AddStart(phaseName)
AddStart(phaseName) ==
    /\ Len(Entries) < MaxEntries
    /\ Entries' = Append(Entries, [Phase |-> phaseName, Start |-> clock,
                                   End |-> NoTime, Duration |-> <<>>])
    /\ timingCall' = [op |-> "AddStart", phase |-> phaseName]
    /\ UNCHANGED <<runner, environ, envs, heap, terminal, streaming, fs, writer,
                   seen, clock>>

\* t.AddEnd(phaseName)
AddEnd(phaseName) ==
    LET i == LatestOpen(Entries, phaseName, Len(Entries)) IN
    /\ Entries' = IF i = 0 THEN Entries
                  ELSE [Entries EXCEPT ![i].End = clock,
                                       ![i].Duration = formatDuration(clock - Entries[i].Start)]
    /\ timingCall' = [op |-> "AddEnd", phase |-> phaseName]
    /\ UNCHANGED <<runner, environ, envs, heap, terminal, streaming, fs, writer,
                   seen, clock>>

\* time passes, thirty seconds at a time
Tick ==
    /\ clock + 30 <= MaxClock
    /\ clock' = clock + 30
    /\ UNCHANGED <<runner, environ, envs, heap, terminal, streaming, fs, writer,
                   seen, Entries, timingCall>>

\* the phases the ledger is followed for: two names tell an entry of the
\* phase of a call from an entry of another phase
TimedPhases == {Name(0), Name(1)}

NextTiming ==
    \/ \E phaseName \in TimedPhases : AddStart(phaseName)
    \/ \E phaseName \in TimedPhases : AddEnd(phaseName)
    \/ Tick

\* no orc process; the phases have the names of the workflow
InitAside ==
    /\ InitCommon
    /\ StoreIdle
    /\ phases = PlainConfig
    /\ faulty = FALSE
    /\ observe = "none"

\* the calls the runner makes on its Timing, in any order
SpecTiming == InitAside /\ [][NextTiming]_vars

\* The terminal: StdinReader, handleDenials and RunGate read os.Stdin
\* ------------------------------------------------------------------------

\* make(chan string, 16)
ChanCap == 16

\* what the operator types: "y", another answer, an empty line
Texts == {"y", "n", ""}

\* the prompt a line answers; "steer" is a line typed to steer the agent
Prompts == {"steer", "permission", "gate"}

\* the operator answers the prompt on the screen, once, and steers an agent
\* only while a turn is running
Type(for, text) ==
    /\ typed < MaxTyped
    /\ for = "steer" => attended.at = "turn"
    /\ for = "permission" => attended.at = "denials"
    /\ for = "gate" => attended.at = "gate"
    /\ for # "steer" => \A i \in DOMAIN stdin : stdin[i].for # for
    /\ stdin' = Append(stdin, [for |-> for, text |-> text])
    /\ typed' = typed + 1
    /\ UNCHANGED <<runner, environ, envs, heap, streaming, timing, fs, writer, seen,
                   sr, attended>>

\* RunAgentAttended up to its first turn: reader := NewStdinReader(os.Stdin)
\* starts the goroutine of readLoop
RunAgentAttended ==
    /\ attended.at = "idle"
    /\ attended.reader < MaxAgents
    /\ attended' = [at |-> "turn", reader |-> attended.reader + 1]
    /\ sr' = [sr EXCEPT ![attended.reader + 1] = [NoReader EXCEPT !.loop = "top"]]
    /\ UNCHANGED <<runner, environ, envs, heap, streaming, timing, fs, writer, seen,
                   stdin, typed>>

\* the head of readLoop's loop: return when done is closed, Scan otherwise
ReaderTop(k) ==
    /\ sr[k].loop = "top"
    /\ sr' = [sr EXCEPT ![k].loop = IF sr[k].done THEN "exited" ELSE "scan"]
    /\ UNCHANGED <<runner, environ, envs, heap, streaming, timing, fs, writer, seen,
                   stdin, attended, typed>>

\* scanner.Scan() of readLoop returns with the next line of os.Stdin; an
\* empty line is dropped
ReaderScan(k) ==
    /\ sr[k].loop = "scan"
    /\ stdin # <<>>
    /\ stdin' = Tail(stdin)
    /\ sr' = IF Head(stdin).text = ""
             THEN [sr EXCEPT ![k].loop = "top"]
             ELSE [sr EXCEPT ![k].loop = "send", ![k].line = <<Head(stdin)>>]
    /\ UNCHANGED <<runner, environ, envs, heap, streaming, timing, fs, writer, seen,
                   attended, typed>>

\* the select of readLoop: the line goes to the channel when it has room;
\* the goroutine returns when done is closed
ReaderSend(k) ==
    /\ sr[k].loop = "send"
    /\ \/ /\ Len(sr[k].lines) < ChanCap
          /\ sr' = [sr EXCEPT ![k].loop = "top", ![k].line = <<>>,
                              ![k].lines = Append(@, sr[k].line[1])]
       \/ /\ sr[k].done
          /\ sr' = [sr EXCEPT ![k].loop = "exited", ![k].line = <<>>]
    /\ UNCHANGED <<runner, environ, envs, heap, streaming, timing, fs, writer, seen,
                   stdin, attended, typed>>

\* runAgentTurn returns, with permission denials or without: with denials
\* handleDenials prints its prompt and scans os.Stdin
TurnReturn(denials) ==
    /\ attended.at = "turn"
    /\ attended' = [attended EXCEPT !.at = IF denials THEN "denials" ELSE "steer"]
    /\ UNCHANGED <<runner, environ, envs, heap, streaming, timing, fs, writer, seen,
                   stdin, sr, typed>>

\* scanner.Scan() of handleDenials returns with the next line of os.Stdin:
\* "y" approves the tools and the loop continues with a new turn
HandleDenials ==
    /\ attended.at = "denials"
    /\ stdin # <<>>
    /\ stdin' = Tail(stdin)
    /\ attended' = [attended EXCEPT !.at = IF Head(stdin).text = "y" THEN "turn"
                                           ELSE "steer"]
    /\ UNCHANGED <<runner, environ, envs, heap, streaming, timing, fs, writer, seen,
                   sr, typed>>

\* reader.ReadLine() after a turn: a buffered line becomes the prompt of a
\* new turn; without one the phase is done and the deferred reader.Stop()
\* closes done
ReadLine ==
    LET k == attended.reader IN
    /\ attended.at = "steer"
    /\ IF sr[k].lines # <<>>
       THEN /\ sr' = [sr EXCEPT ![k].lines = Tail(@)]
            /\ attended' = [attended EXCEPT !.at = "turn"]
       ELSE /\ sr' = [sr EXCEPT ![k].done = TRUE]
            /\ attended' = [attended EXCEPT !.at = "idle"]
    /\ UNCHANGED <<runner, environ, envs, heap, streaming, timing, fs, writer, seen,
                   stdin, typed>>

\* RunGate without --auto: the prompt is printed and a goroutine reads a
\* line of os.Stdin
RunGate ==
    /\ attended.at = "idle"
    /\ attended' = [attended EXCEPT !.at = "gate"]
    /\ UNCHANGED <<runner, environ, envs, heap, streaming, timing, fs, writer, seen,
                   stdin, sr, typed>>

\* reader.ReadString of RunGate returns with the next line of os.Stdin and
\* the gate returns
GateRead ==
    /\ attended.at = "gate"
    /\ stdin # <<>>
    /\ stdin' = Tail(stdin)
    /\ attended' = [attended EXCEPT !.at = "idle"]
    /\ UNCHANGED <<runner, environ, envs, heap, streaming, timing, fs, writer, seen,
                   sr, typed>>

NextTerminal ==
    \/ \E for \in Prompts, text \in Texts : Type(for, text)
    \/ RunAgentAttended
    \/ \E k \in 1 .. MaxAgents : ReaderTop(k)
    \/ \E k \in 1 .. MaxAgents : ReaderScan(k)
    \/ \E k \in 1 .. MaxAgents : ReaderSend(k)
    \/ \E denials \in BOOLEAN : TurnReturn(denials)
    \/ HandleDenials
    \/ ReadLine
    \/ RunGate
    \/ GateRead

\* attended agent phases and gates in any order, an operator at the
\* terminal; a read of os.Stdin returns to any one of the readers blocked on it
SpecTerminal == InitAside /\ [][NextTerminal]_vars

\* processStream
\* ------------------------------------------------------------------------

\* number of lines of a stream
MaxEvents == 3

\* the lines the child writes: text deltas, the result event with the cost
\* and the permission denials, an empty line, a line that is not JSON
Lines == {"text_a", "text_b", "result", "", "not json"}

RECURSIVE SeqsUpTo(_, _)
\* the sequences over S of length n at most
SeqsUpTo(S, n) ==
    IF n = 0 THEN {<<>>}
    ELSE LET shorter == SeqsUpTo(S, n - 1) IN
         shorter \cup {Append(q, x) : q \in {t \in shorter : Len(t) = n - 1}, x \in S}

Streams == SeqsUpTo(Lines, MaxEvents)

\* handleStreamEvent on a text_delta: textBuf.WriteString(text)
handleStreamEvent(line, textBuf) ==
    IF line = "text_a" THEN Append(textBuf, "a")
    ELSE IF line = "text_b" THEN Append(textBuf, "b")
    ELSE textBuf

\* handleResultEvent: the session and the denials of the payload
handleResultEvent(line, result) ==
    IF line = "result"
    THEN [result EXCEPT !.SessionID = "s1",
                        !.PermissionDenials = Append(@, "Bash")]
    ELSE result

\* processStream(ctx, stdout, ...) is called on the stdout of a child
ProcessStream(lines) ==
    /\ stream.at = "idle"
    /\ stdout' = lines
    /\ stream' = [NoStream EXCEPT !.at = "scan"]
    /\ UNCHANGED <<runner, environ, envs, heap, terminal, timing, fs, writer, seen>>

\* one iteration of "for scanner.Scan()": with ctx.Err() set the call returns
\* &result and ctx.Err(); otherwise empty and malformed lines are skipped and
\* the event is handled
ScanLine ==
    /\ stream.at = "scan"
    /\ stdout # <<>>
    /\ stdout' = Tail(stdout)
    /\ stream' = IF stream.ctxErr
                 THEN [stream EXCEPT !.at = "returned", !.err = "context canceled"]
                 ELSE [stream EXCEPT
                          !.textBuf = handleStreamEvent(Head(stdout), @),
                          !.result = handleResultEvent(Head(stdout), @)]
    /\ UNCHANGED <<runner, environ, envs, heap, terminal, timing, fs, writer, seen>>

\* scanner.Scan() returns false at the end of the stream: result.Text is
\* set from textBuf and the call returns without an error
ScanEnd ==
    /\ stream.at = "scan"
    /\ stdout = <<>>
    /\ stream' = [stream EXCEPT !.at = "returned", !.result.Text = stream.textBuf]
    /\ UNCHANGED <<runner, environ, envs, heap, terminal, timing, fs, writer, seen,
                   stdout>>

\* scanner.Scan() returns false on an error of the read: the call returns
\* &result and "reading stream: ..."
ScanError ==
    /\ stream.at = "scan"
    /\ stream' = [stream EXCEPT !.at = "returned", !.err = "reading stream"]
    /\ UNCHANGED <<runner, environ, envs, heap, terminal, timing, fs, writer, seen,
                   stdout>>

\* the context of the call is cancelled while it scans
StreamCancel ==
    /\ stream.at = "scan"
    /\ ~stream.ctxErr
    /\ stream' = [stream EXCEPT !.ctxErr = TRUE]
    /\ UNCHANGED <<runner, environ, envs, heap, terminal, timing, fs, writer, seen,
                   stdout>>

NextStream ==
    \/ \E lines \in Streams : ProcessStream(lines)
    \/ ScanLine
    \/ ScanEnd
    \/ ScanError
    \/ StreamCancel

\* one call of processStream on any stream, cancelled at any moment or never
SpecStream == InitAside /\ [][NextStream]_vars

\* ------------------------------------------------------------------------
\* Properties
\* ------------------------------------------------------------------------

\* the on-failure policy of the phase at index i leaves room for one more loop
HasBudget(i) ==
    /\ phases[i].OnFail # NoOnFail
    /\ loopCounts[Name(i)] + 1 <= phases[i].OnFail.Max

\* a phase dispatched on its own is in progress: from the start of its
\* Dispatch to the save that ends the iteration
InSequentialPhase == pc \in {"dispatch", "reprompt", "feedback", "jump"}

\* Run is at a point where it dispatches
Dispatching == pc \in {"dispatch", "parallel"}

\* C1: whenever Run has returned nil, the phase index equals the number of
\* configured phases, the status is completed, and state.json holds the same
\* two values (also when writes to the artifacts directory may fail)
C1_NilMeansCompleted ==
    pc = "returned" /\ ret = "nil" =>
        /\ PhaseIndex = NumPhases
        /\ Status = StatusCompleted
        /\ stateFile = Save(NumPhases, StatusCompleted)

\* C1 happens: Run has returned nil after a run that took an on-failure loop
C1_Witness ==
    /\ pc = "returned"
    /\ ret = "nil"
    /\ \E n \in Names : loopCounts[n] > 0

\* C2: at every point of every run, the loop count of every phase with an
\* on-failure policy is at most the policy's max, in the runner's table and
\* in loop-counts.json
C2_LoopCountBounded ==
    \A i \in Idx :
        phases[i].OnFail # NoOnFail =>
            /\ loopCounts[Name(i)] <= phases[i].OnFail.Max
            /\ LoadLoopCounts[Name(i)] <= phases[i].OnFail.Max

\* C2 happens: a phase has used up its policy, in memory and on disk
C2_Witness ==
    \E i \in Idx :
        /\ phases[i].OnFail # NoOnFail
        /\ loopCounts[Name(i)] = phases[i].OnFail.Max
        /\ loopFile # NoFile
        /\ Contents(loopFile)[Name(i)] = phases[i].OnFail.Max

\* the step C3 is about: the Dispatch of a phase with an on-failure policy
\* returns a failure when its loop count has no room left, the outer context
\* not being cancelled
C3_Case ==
    /\ pc = "dispatch"
    /\ ~cancelled
    /\ hist'.failed = {PhaseIndex}
    /\ phases[PhaseIndex].OnFail # NoOnFail
    /\ ~HasBudget(PhaseIndex)

C4_JumpStep ==
    pc = "jump" /\ pc' \notin {"jump", "stopped"} =>
        LET g == PhaseIndexOf(phases[PhaseIndex].OnFail.Goto) IN
        /\ PhaseIndex' = g
        /\ Status' = StatusRunning
        /\ stateFile' = Save(g, StatusRunning)
        /\ pc' = "loop"

\* a phase dispatched on its own fails with room left in its policy: the
\* on-failure protocol starts
C4_FailStep ==
    /\ pc = "dispatch"
    /\ ~cancelled
    /\ hist'.failed = {PhaseIndex}
    /\ HasBudget(PhaseIndex)
    => /\ pc' = "feedback"
       /\ loopCounts' = [loopCounts EXCEPT ![Name(PhaseIndex)] = @ + 1]
       /\ PhaseIndex' = PhaseIndex

\* the on-failure protocol, once started, goes on to the jump
C4_FeedbackStep ==
    pc = "feedback" /\ pc' \notin {"feedback", "stopped"} => pc' = "jump"

C5_Original ==
    /\ (pc = "returned" /\ hist.cancelledAt # -1 =>
           /\ ret = "cancelled"
           /\ stateFile = Save(hist.cancelledAt, StatusInterrupted))
    /\ (Dispatching /\ directive = "none" /\ past.interrupted # -1 =>
           PhaseIndex = past.interrupted)

\* C6, first half: a process started without a directive starts from the
\* index in state.json, and while a run is in progress state.json holds the
\* index of the phase the run is at
C6_ResumesAtPersistedIndex ==
    /\ (pc = "start" /\ directive = "none" => PhaseIndex = Load.PhaseIndex)
    /\ (pc \in {"loop", "cond", "dispatch", "parallel", "reprompt", "feedback", "jump"}
           => stateFile # NoFile /\ Contents(stateFile).PhaseIndex = PhaseIndex)

\* C6 as stated: after a crash and a restart without a directive, execution
\* resumes at the persisted index and the most recently completed phase is
\* not dispatched again
C6_Original ==
    /\ C6_ResumesAtPersistedIndex
    /\ (Dispatching /\ directive = "none" /\ past.crashed =>
           past.lastCompleted \notin hist.lastDispatched)

\* C6 amended: after a crash and a restart without a directive, execution
\* resumes at the persisted index, and the most recently completed phase is
\* not dispatched again unless the persisted index was moved back since its
\* completion, by an on-failure jump or by a --retry/--from directive
C6_CrashRecovery ==
    /\ C6_ResumesAtPersistedIndex
    /\ (Dispatching /\ directive = "none" /\ past.crashed /\ ~past.rewound =>
           \A d \in hist.lastDispatched : d > past.lastCompleted)

\* C6 happens: a process restarted after a crash dispatches the phase after
\* the most recently completed one
C6_Witness ==
    /\ Dispatching
    /\ directive = "none"
    /\ past.crashed
    /\ ~past.rewound
    /\ past.lastCompleted >= 0
    /\ PhaseIndex = Contents(stateFile).PhaseIndex

\* what state.json may hold when the runner moves on from the phase at
\* index i: i, the index after it, or the index of its goto target
C7_Allowed(i) ==
    {i, i + 1} \cup (IF phases[i].OnFail # NoOnFail
                     THEN {PhaseIndexOf(phases[i].OnFail.Goto)} ELSE {})

\* C7: at most one dispatch of a phase is in flight, and from the start of the
\* dispatch of a phase dispatched on its own until the runner moves on,
\* state.json holds the index of the phase, or the index the runner moves on
\* to, and nothing in between
C7_OneInFlightNoIntermediate ==
    /\ [](\A i \in Idx : inflight[i] <= 1)
    /\ [](InSequentialPhase =>
            /\ stateFile # NoFile
            /\ Contents(stateFile).PhaseIndex = PhaseIndex
            /\ \A i \in Idx : inflight[i] > 0 => i = PhaseIndex)
    /\ [][InSequentialPhase =>
            /\ stateFile' # NoFile
            /\ Contents(stateFile').PhaseIndex \in C7_Allowed(PhaseIndex)
            /\ (pc' = "loop" => Contents(stateFile').PhaseIndex = PhaseIndex')]_vars

\* C7 happens: a phase after the first is in dispatch, with its index on disk
C7_Witness ==
    /\ pc = "dispatch"
    /\ PhaseIndex > 0
    /\ inflight[PhaseIndex] = 1
    /\ Contents(stateFile).PhaseIndex = PhaseIndex

\* C9: while a worker of a started pair has not returned, the coordinator
\* stays in runParallel: no other phase is dispatched, and the phase index,
\* in memory and in state.json, does not change
C9_PairIsAtomic ==
    /\ [](pc = "parallel" => \A i \in Idx : inflight[i] > 0 => i \in hist.lastDispatched)
    /\ [][pc = "parallel" /\ (\E k \in 1 .. 2 : workers[k] # "done")
          /\ pc' # "stopped"
          => /\ pc' = "parallel"
             /\ PhaseIndex' = PhaseIndex
             /\ stateFile' = stateFile
             /\ hist'.lastDispatched = hist.lastDispatched]_vars

\* C9 happens: one worker of a pair has returned and its result has been
\* received, the other is still running
C9_Witness ==
    /\ pc = "parallel"
    /\ workers[1] = "done"
    /\ workers[2] = "running"
    /\ results = <<>>

C11_PastPair(i) ==
    LET j == PhaseIndexOf(phases[i].ParallelWith) IN
    (IF j > i THEN j ELSE i) + 1

\* C11: while a pair is running state.json holds the index i of its first
\* phase; when both workers have succeeded, the declared outputs of both
\* phases are checked before the index moves: if one is missing the run fails
\* with the index still i, in memory and in state.json; otherwise the index
\* goes from i to max(i, j) + 1 and that index is what the one save writes
C11_BothSucceedAdvance ==
    /\ [](pc = "parallel" =>
            stateFile # NoFile /\ Contents(stateFile).PhaseIndex = PhaseIndex)
    /\ [][pc = "parallel" /\ pc' \notin {"parallel", "stopped"} /\ hist.failed = {}
          => IF hist'.missing > 0
             THEN /\ PhaseIndex' = PhaseIndex
                  /\ stateFile' = Save(PhaseIndex, StatusFailed)
                  /\ ret' = "missing_outputs"
                  /\ pc' = "returned"
             ELSE /\ PhaseIndex' = C11_PastPair(PhaseIndex)
                  /\ stateFile' = Save(C11_PastPair(PhaseIndex), StatusRunning)
                  /\ pc' = "loop"]_vars

\* C11 happens: both workers of a pair whose phases are not adjacent have
\* succeeded and their results have been received, one of the phases
\* declares outputs, state.json still holds the index of the first phase
C11_Witness ==
    /\ pc = "parallel"
    /\ Joined
    /\ results = <<>>
    /\ hist.failed = {}
    /\ C11_PastPair(PhaseIndex) > PhaseIndex + 2
    /\ \E i \in hist.lastDispatched : phases[i].Outputs > 0
    /\ stateFile = Save(PhaseIndex, StatusRunning)

\* C12 as stated: when Run has ended because declared outputs of an agent
\* phase dispatched on its own were still missing after the re-prompt, the
\* phase has no on-failure policy or its policy has no room left (with room
\* left the on-failure protocol would have been applied instead)
C12_Original ==
    /\ pc = "returned"
    /\ ret = "missing_outputs"
    /\ hist.lastDispatched = {PhaseIndex}
    /\ phases[PhaseIndex].Type = "agent"
    /\ hist.turns > 0
    => ~HasBudget(PhaseIndex)

\* C13 as stated: when an agent phase has exited 0 with k > 0 declared
\* outputs missing, one re-prompt turn is issued per missing output (k in
\* all) before the phase is classified; so whenever Run has ended on missing
\* outputs of agent phases, dispatched alone or in a pair, as many turns were
\* issued as outputs were found missing
C13_Original ==
    /\ (pc = "reprompt" => hist.turns + todo = hist.missing)
    /\ (/\ pc = "returned"
        /\ ret = "missing_outputs"
        /\ \A i \in hist.lastDispatched :
              phases[i].Outputs > 0 => phases[i].Type = "agent"
        => hist.turns = hist.missing)

\* C14 as stated: every phase in dispatch that carries a condition, alone
\* or as a member of a parallel pair, had its condition evaluated in this
\* iteration and the condition exited 0
C14_Original ==
    Dispatching =>
        \A i \in hist.lastDispatched : phases[i].Condition => i \in hist.evaluated

\* what Dispatch returns when the phase has failed: a non-zero exit code or
\* a dispatch error
Failures == {o \in Outcomes : o # "ok"}

\* C15 as stated: when Run has ended and the outer context is not cancelled,
\* every phase without an on-failure policy whose Dispatch returned a failure,
\* alone or as a member of a parallel pair, is the phase the index is at, in
\* memory and in state.json, with status failed
C15_Original ==
    pc = "returned" /\ ~cancelled =>
        \A i \in hist.failed :
            phases[i].OnFail = NoOnFail =>
                /\ PhaseIndex = i
                /\ stateFile = Save(i, StatusFailed)

\* C15 amended: when the Dispatch of a phase without an on-failure policy
\* that was dispatched on its own returns a failure while the outer context is
\* not cancelled, Run returns the error of that phase, status failed is
\* persisted with the index of that phase, and nothing more is dispatched
\* before the process exits; when a member of a parallel pair fails, Run
\* returns an error naming a failed member, and status failed is persisted
\* with the index of the first phase of the pair
C15_NoPolicyFailureIsTerminal ==
    /\ [][/\ pc = "dispatch"
          /\ ~cancelled
          /\ phases[PhaseIndex].OnFail = NoOnFail
          /\ \E o \in Failures : DispatchReturn(o)
          => /\ pc' = "returned"
             /\ ret' = "phase_failed"
             /\ hist'.failed = {PhaseIndex}
             /\ Status' = StatusFailed
             /\ PhaseIndex' = PhaseIndex
             /\ stateFile' = Save(PhaseIndex, StatusFailed)
             /\ \A i \in Idx : inflight'[i] = 0]_vars
    /\ [][/\ pc = "parallel"
          /\ pc' \notin {"parallel", "stopped"}
          /\ ~cancelled
          /\ hist.failed # {}
          => /\ pc' = "returned"
             /\ ret' = "parallel_failed"
             /\ firstErr \in {Name(i) : i \in hist.failed}
             /\ PhaseIndex' = PhaseIndex
             /\ PhaseIndex \in hist.lastDispatched
             /\ \A i \in hist.lastDispatched : PhaseIndex <= i
             /\ stateFile' = Save(PhaseIndex, StatusFailed)]_vars
    /\ [][pc = "returned" =>
            /\ pc' = "stopped"
            /\ inflight' = NoInflight
            /\ UNCHANGED disk]_vars

\* C15 happens: Run has returned the error of a phase without a policy that
\* failed after an earlier phase had completed
C15_Witness ==
    /\ pc = "returned"
    /\ ret = "phase_failed"
    /\ ~cancelled
    /\ PhaseIndex > 0
    /\ hist.failed = {PhaseIndex}
    /\ phases[PhaseIndex].OnFail = NoOnFail
    /\ stateFile = Save(PhaseIndex, StatusFailed)

C21_Original ==
    pc = "parallel" /\ (\E k \in 1 .. 2 : workers[k] = "done")
    => \A k \in 1 .. 2 : workers[k] # "spawned"

\* the phase at index i names another phase as its parallel partner
HasPartner(i) ==
    /\ phases[i].ParallelWith # ""
    /\ PhaseIndexOf(phases[i].ParallelWith) # i

\* C22 as stated: a phase that names another phase as its parallel partner,
\* listed before or after it, is only ever dispatched together with that
\* partner, by runParallel, and never on its own
C22_Original ==
    Dispatching =>
        \A i \in hist.lastDispatched :
            HasPartner(i) =>
                /\ pc = "parallel"
                /\ hist.lastDispatched = {i, PhaseIndexOf(phases[i].ParallelWith)}

\* C23 as stated: a phase whose named parallel partner is earlier in the
\* list is never handed to Dispatch: reaching it only moves the index on by
\* one, with no dispatch in between
C23_Original ==
    [][(/\ pc \in {"loop", "cond"}
        /\ PhaseIndex < NumPhases
        /\ HasPartner(PhaseIndex)
        /\ PhaseIndexOf(phases[PhaseIndex].ParallelWith) < PhaseIndex)
       => pc' \in {"loop", "cond", "stopped", "returned"}]_vars

\* the process is inside Runner.Run
InRun == pc \in {"loop", "cond", "dispatch", "reprompt", "feedback", "jump", "parallel"}

\* C24 as stated: whenever Run returns an error, the status in memory is
\* failed or interrupted, and state.json either holds the index and that
\* status (the save succeeded) or is what it was (the save failed)
C24_Original ==
    [][InRun /\ pc' = "returned" /\ ret' # "nil"
       => /\ Status' \in {StatusFailed, StatusInterrupted}
          /\ stateFile' \in {Save(PhaseIndex', Status'), stateFile}]_vars

\* C25: a process started with --retry N or --from N that goes on to Run has
\* replaced loop-counts.json by the empty table before it saves its first
\* state; Run then loads the empty table, and no phase is in flight before
\* that; a process given both flags returns the "mutually exclusive" error
\* without writing anything and without dispatching anything
C25_DirectiveResetsLoopCounts ==
    /\ [][pc = "stopped" /\ pc' = "start" /\ directive' = "restart"
          => loopFile' = SaveLoopCounts(NoCounts)]_vars
    /\ [](pc = "start" =>
            /\ inflight = NoInflight /\ hist.lastDispatched = {}
            /\ directive = "restart" => loopFile = SaveLoopCounts(NoCounts))
    /\ [][pc = "start" /\ pc' = "loop" /\ directive = "restart"
          => /\ loopCounts' = NoCounts
             /\ loopFile' = SaveLoopCounts(NoCounts)
             /\ inflight' = NoInflight]_vars
    /\ [](directive = "both" =>
            /\ pc = "returned"
            /\ ret = "mutually_exclusive"
            /\ inflight = NoInflight
            /\ hist.lastDispatched = {})
    /\ [][directive' = "both" /\ directive # "both" => UNCHANGED disk]_vars

\* C25 happens: Run starts under a directive with an empty table, in an
\* artifacts directory that holds the feedback of an earlier backward jump
C25_Witness ==
    /\ pc = "loop"
    /\ directive = "restart"
    /\ hist.lastDispatched = {}
    /\ loopCounts = NoCounts
    /\ loopFile = SaveLoopCounts(NoCounts)
    /\ \E n \in Names : feedbackFile[n] # ""

C28_Original ==
    pc = "stopped" =>
        \A i \in Idx :
            phases[i].ParallelWith # "" => PhaseIndexOf(phases[i].ParallelWith) > i

\* the payload of a failed attempt: its captured output, or the error
\* message when nothing was captured or Dispatch returned an error
FailurePayload(o) == IF o = "exit_output" THEN "output" ELSE "error"

AtMax(i) ==
    /\ phases[i].OnFail # NoOnFail
    /\ loopCounts[Name(i)] = phases[i].OnFail.Max

\* C18 as stated: a run whose loop count for some phase has reached the max
\* of the policy of that phase ends with status failed, so Run never returns
\* nil with a count at max
C18_Original ==
    pc = "returned" /\ ret = "nil" => \A i \in Idx : ~AtMax(i)

\* C18 amended: the step in which the count reaches max is a backward jump
\* like any other; the count then stays at max for the rest of Run, and the
\* next failure of the phase while the outer context is not cancelled ends
\* the run with status failed, persisted, with no further jump; Run returns
\* the "exceeded max retries" error only with the count of the failed phase
\* at max
C18_FailureAtMaxIsTerminal ==
    /\ [][pc = "dispatch" /\ phases[PhaseIndex].OnFail # NoOnFail
          /\ ~AtMax(PhaseIndex)
          /\ loopCounts'[Name(PhaseIndex)] = phases[PhaseIndex].OnFail.Max =>
            pc' = "feedback" /\ Status' = StatusRunning]_vars
    /\ [][pc \notin {"stopped", "start"} /\ pc' # "stopped" =>
            \A i \in Idx : AtMax(i) => loopCounts'[Name(i)] = loopCounts[Name(i)]]_vars
    /\ [][pc = "dispatch" /\ ~cancelled /\ AtMax(PhaseIndex)
          /\ hist'.failed = {PhaseIndex} =>
            /\ pc' = "returned"
            /\ Status' = StatusFailed
            /\ stateFile' = Save(PhaseIndex, StatusFailed)
            /\ hist'.jumpTarget = -1]_vars
    /\ [][pc = "parallel" /\ pc' \notin {"parallel", "stopped"} /\ ~cancelled
          /\ (\E i \in hist.failed : AtMax(i)) =>
            /\ pc' = "returned"
            /\ Status' = StatusFailed
            /\ stateFile' = Save(PhaseIndex, StatusFailed)]_vars
    /\ [](pc = "returned" /\ ret = "max_retries" =>
            AtMax(PhaseIndex) /\ Status = StatusFailed)

\* C18 happens: Run has returned the "exceeded max retries" error for a phase
\* whose count reached max by jumps of this Run, the last jump target being
\* recorded
C18_Witness ==
    /\ pc = "returned"
    /\ ret = "max_retries"
    /\ Status = StatusFailed
    /\ AtMax(PhaseIndex)
    /\ loopFile # NoFile
    /\ Contents(loopFile)[Name(PhaseIndex)] = phases[PhaseIndex].OnFail.Max
    /\ stateFile = Save(PhaseIndex, StatusFailed)

\* what the holder of the Environment e reads through it: the entries of
\* CustomVars and the elements of filteredEnv
View(e) ==
    [CustomVars |-> IF envs[e].CustomVars = nil THEN NoVars
                    ELSE heap[envs[e].CustomVars].m,
     filteredEnv |-> IF envs[e].filteredEnv.arr = nil THEN <<>>
                     ELSE SubSeq(heap[envs[e].filteredEnv.arr].elems, 1,
                                 envs[e].filteredEnv.len)]

\* the environments of a parallel pair: the runner's own and the two workers'
PairEnvs == {"r", "env1", "env2"}

\* C20 as stated: no two of r.Env, env1 and env2 refer to the same
\* CustomVars map or to the same backing array of filteredEnv, and a write
\* to CustomVars or an append to filteredEnv through one of them changes
\* nothing of what is read through another
C20_Original ==
    /\ [](\A e1 \in PairEnvs : \A e2 \in PairEnvs \ {e1} :
            envs[e1].live /\ envs[e2].live =>
              /\ envs[e1].CustomVars # nil =>
                   envs[e1].CustomVars # envs[e2].CustomVars
              /\ envs[e1].filteredEnv.arr # nil =>
                   envs[e1].filteredEnv.arr # envs[e2].filteredEnv.arr)
    /\ [][\A e1 \in PairEnvs :
            \/ \E k \in Keys : SetVar(e1, k, "changed")
            \/ \E v \in Extras : AppendEntry(e1, v)
            =>
              \A e2 \in PairEnvs \ {e1} : envs[e2].live => View(e2)' = View(e2)]_vars

\* C19: the feedback file of a phase is written only by the on-failure
\* protocol of that phase, with the captured output of the failed attempt or,
\* when that is empty, with the error message; no other step of a run, in
\* particular no successful attempt of the phase, changes a feedback file
C19_FeedbackHoldsFailure ==
    /\ [][pc = "feedback" /\ pc' \notin {"feedback", "stopped"} =>
            feedbackFile' = [feedbackFile EXCEPT ![Name(PhaseIndex)] =
                               FailurePayload(outcome)]]_vars
    /\ [][pc # "feedback" => feedbackFile' = feedbackFile]_vars
    /\ [](pc = "jump" =>
            /\ outcome \in Failures
            /\ feedbackFile[Name(PhaseIndex)] = FailurePayload(outcome))

\* C19 happens: Run has returned nil after a run in which a phase failed once
\* with captured output and then succeeded: its loop count is 1 and its
\* feedback file holds the output of the failed attempt
C19_Witness ==
    /\ pc = "returned"
    /\ ret = "nil"
    /\ \E n \in Names :
          /\ loopCounts[n] = 1
          /\ Contents(loopFile)[n] = 1
          /\ feedbackFile[n] = "output"
          /\ \A m \in Names \ {n} : loopCounts[m] = 0 /\ feedbackFile[m] = ""

\* the artifacts directory as a run leaves it that failed at the phase at
\* index i with the retries of its policy exhausted
ExhaustedAt(i) ==
    /\ stateFile = Save(i, StatusFailed)
    /\ phases[i].OnFail # NoOnFail
    /\ loopFile # NoFile
    /\ Contents(loopFile)[Name(i)] = phases[i].OnFail.Max

\* C26 as stated: a process that takes up a phase whose loop count is at max
\* leaves it only through its dispatch
C26_Original ==
    [][(/\ pc \in {"loop", "cond"}
        /\ PhaseIndex < NumPhases
        /\ ~cancelled
        /\ directive = "none"
        /\ pc' # "stopped"
        /\ AtMax(PhaseIndex))
       => PhaseIndex' = PhaseIndex]_vars

\* C26 amended: a run that ends with the "exceeded max retries" error leaves
\* state.json at the failed phase p with status failed and p's count at max
\* in loop-counts.json, and the exit of the process keeps both; only runCmd
\* under a directive (empty table) and the on-failure protocol (incremented
\* table) write loop-counts.json; a process started without a directive on
\* such a directory resumes at p and loads p's count at max; taking up a
\* phase whose count is at max without cancellation, it evaluates the
\* condition of the phase if it has one and skips the phase when that is not
\* met, and dispatches the phase on its own otherwise; a failure of that
\* dispatch without cancellation ends Run with the "exceeded max retries"
\* error, the index and loop-counts.json unchanged and no backward jump
C26_LoopCountsPersist ==
    /\ [](pc = "returned" /\ ret = "max_retries" => ExhaustedAt(PhaseIndex))
    /\ [][pc = "returned" => (pc' = "stopped" /\ UNCHANGED disk)]_vars
    /\ [][loopFile' # loopFile =>
            ((/\ pc = "stopped"
              /\ directive' = "restart"
              /\ loopFile' = SaveLoopCounts(NoCounts))
             \/
             (/\ pc = "dispatch"
              /\ pc' = "feedback"
              /\ loopFile' = SaveLoopCounts([loopCounts EXCEPT
                                               ![Name(PhaseIndex)] = @ + 1])))]_vars
    /\ [][(pc = "stopped" /\ pc' = "start" /\ directive' = "none") =>
            (/\ UNCHANGED disk
             /\ stateFile # NoFile => PhaseIndex' = Contents(stateFile).PhaseIndex)]_vars
    /\ [][(pc = "start" /\ pc' = "loop") =>
            (/\ UNCHANGED <<PhaseIndex, loopFile>>
             /\ loopFile # NoFile => loopCounts' = Contents(loopFile))]_vars
    /\ [][(/\ pc \in {"loop", "cond"}
           /\ PhaseIndex < NumPhases
           /\ ~cancelled
           /\ pc' \notin {"stopped", pc}
           /\ AtMax(PhaseIndex))
          => ((/\ pc = "loop"
               /\ pc' = "cond"
               /\ phases[PhaseIndex].Condition
               /\ UNCHANGED <<mem, disk>>)
              \/
              (/\ pc' = "dispatch"
               /\ pc = "loop" <=> ~phases[PhaseIndex].Condition
               /\ hist'.lastDispatched = {PhaseIndex}
               /\ UNCHANGED <<mem, disk>>)
              \/
              (/\ pc = "cond"
               /\ pc' = "loop"
               /\ PhaseIndex' = PhaseIndex + 1
               /\ UNCHANGED <<loopCounts, loopFile>>))]_vars
    /\ [][(/\ pc = "dispatch"
           /\ ~cancelled
           /\ AtMax(PhaseIndex)
           /\ hist'.failed = {PhaseIndex})
          => (/\ pc' = "returned"
              /\ ret' = "max_retries"
              /\ UNCHANGED <<PhaseIndex, loopCounts, loopFile, feedbackFile>>
              /\ \A i \in Idx : inflight'[i] = 0)]_vars

\* C26 happens: a process started without a directive has loaded the state
\* of a run that failed with the retries of its phase exhausted
C26_Witness ==
    /\ pc = "start"
    /\ directive = "none"
    /\ ExhaustedAt(PhaseIndex)

\* the statuses a run ends with
FinalStatuses == {StatusCompleted, StatusFailed, StatusInterrupted}

\* C31 as stated: a process whose Run is entered comes to the return of Run
\* (or dies); Run returns with status completed, failed or interrupted; the
\* backward jumps of the process are at most the room the loop counts loaded
\* at the start of Run leave under the max of the policies
C31_Original ==
    /\ (pc = "start") ~> (pc \in {"returned", "stopped"})
    /\ [][InRun /\ pc' = "returned" => Status' \in FinalStatuses]_vars
    /\ [](hist.jumps <= hist.budget)

\* C32 as stated: when the outer context is cancelled while the condition of
\* the phase at index i is evaluated, the return of the evaluation leaves the
\* index at i, in memory and in state.json
C32_Original ==
    [][(pc = "cond" /\ cancelled /\ pc' # "stopped")
       => (/\ PhaseIndex' = PhaseIndex
           /\ Contents(stateFile').PhaseIndex = PhaseIndex)]_vars

\* C33 as stated, step by step: Run moves the index forward only over phases
\* it has dispatched in the iteration that ends, or over the phase whose
\* condition it has just evaluated as not met; a run from index 0 to the end
\* then passes over no other phase
C33_Original ==
    [][(InRun /\ pc' # "stopped" /\ PhaseIndex' > PhaseIndex)
       => \A k \in PhaseIndex .. (PhaseIndex' - 1) :
              \/ k \in hist.lastDispatched
              \/ pc = "cond" /\ k = PhaseIndex]_vars

\* Run has loaded the loop counts and has not returned
Counting == InRun \/ pc = "returned"

\* C34 as stated: while Run is in progress and when it has returned, the loop
\* count of each phase is the number of backward jumps made from the phase by
\* this process
C34_Original ==
    Counting /\ ret # "save_error" /\ ret # "feedback_error"
    /\ pc \notin {"feedback", "jump"}
    => \A n \in Names : loopCounts[n] = hist.from[n]

\* C34 amended: the loop count of each phase is the count loaded from
\* loop-counts.json at the start of Run plus the number of backward jumps
\* made from the phase by this process, the jump that is being made (between
\* the increment and SetPhase, or cut short by a failed write) counted; in
\* Run it changes only at the return of a failed dispatch of the phase
\* itself, by +1, the counts of the other phases unchanged
C34_CountIsLoadedPlusJumps ==
    /\ [](Counting =>
            \A n \in Names :
                loopCounts[n] = hist.loaded[n] + hist.from[n] +
                    (IF /\ \/ pc \in {"feedback", "jump"}
                           \/ pc = "returned" /\ ret \in {"save_error", "feedback_error"}
                        /\ PhaseIndex < NumPhases
                        /\ n = Name(PhaseIndex)
                        /\ outcome # "ok"
                        THEN 1 ELSE 0))
    /\ [][(InRun /\ pc' # "stopped" /\ loopCounts' # loopCounts)
          => (/\ pc = "dispatch"
              /\ hist'.failed = {PhaseIndex}
              /\ phases[PhaseIndex].OnFail # NoOnFail
              /\ loopCounts' = [loopCounts EXCEPT ![Name(PhaseIndex)] = @ + 1])]_vars
    /\ [][(pc = "jump" /\ pc' \notin {"jump", "stopped"})
          => hist'.from = [hist.from EXCEPT ![Name(PhaseIndex)] = @ + 1]]_vars

\* C34 happens: a process that loaded a count above zero for a phase has made
\* a backward jump from that phase
C34_Witness ==
    /\ pc = "loop"
    /\ \E n \in Names : hist.loaded[n] > 0 /\ hist.from[n] > 0

\* C35: the step by which Run or runParallel classifies a dispatch as
\* interrupted changes no loop count, in memory or in loop-counts.json, and
\* no feedback file, and leaves the index where it is; state.json is left as
\* it is or given that index with status interrupted; while a pair is in
\* flight nothing is written to the artifacts directory
C35_InterruptedIsFree ==
    /\ [][(pc \in {"dispatch", "parallel"} /\ pc' = "returned"
           /\ Status' = StatusInterrupted)
          => (/\ cancelled
              /\ ret' = "cancelled"
              /\ UNCHANGED <<PhaseIndex, loopCounts, loopFile, feedbackFile>>
              /\ stateFile' \in {stateFile, Save(PhaseIndex, StatusInterrupted)})]_vars
    /\ [][(pc = "dispatch" /\ cancelled /\ pc' \notin {"dispatch", "stopped"})
          => (pc' = "returned" /\ Status' = StatusInterrupted)]_vars
    /\ [][(pc = "parallel" /\ pc' = "parallel") => UNCHANGED <<mem, disk>>]_vars

\* C35 happens: the dispatch of a phase with an on-failure policy and room
\* for a retry was classified as interrupted, the index persisted with it
C35_Witness ==
    /\ pc = "returned"
    /\ Status = StatusInterrupted
    /\ hist.cancelledAt = PhaseIndex
    /\ hist.lastDispatched = {PhaseIndex}
    /\ phases[PhaseIndex].OnFail # NoOnFail
    /\ loopCounts[Name(PhaseIndex)] < phases[PhaseIndex].OnFail.Max
    /\ stateFile = Save(PhaseIndex, StatusInterrupted)

\* C36: the step by which runParallel returns sets the status and the
\* persisted index as a function of which workers failed (hist.failed, a set:
\* the order of the results is not in it), of the cancellation of the outer
\* context and of the declared outputs found missing: with a failed worker,
\* interrupted or failed by the outer context at the index of the pair;
\* with none, failed at that index when an output is missing, and the index
\* past the pair with status running otherwise
C36_OrderIndependent ==
    [][(pc = "parallel" /\ pc' \notin {"parallel", "stopped"})
       => LET idx2 == PhaseIndexOf(phases[PhaseIndex].ParallelWith) IN
          IF hist.failed # {}
          THEN /\ pc' = "returned"
               /\ Status' = IF cancelled THEN StatusInterrupted ELSE StatusFailed
               /\ PhaseIndex' = PhaseIndex
               /\ stateFile' = Save(PhaseIndex, Status')
          ELSE \/ /\ pc' = "returned"
                  /\ hist'.missing > 0
                  /\ Status' = StatusFailed
                  /\ PhaseIndex' = PhaseIndex
                  /\ stateFile' = Save(PhaseIndex, StatusFailed)
               \/ /\ pc' = "loop"
                  /\ hist'.missing = 0
                  /\ Status' = StatusRunning
                  /\ PhaseIndex' = idx2 + 1
                  /\ stateFile' = Save(idx2 + 1, StatusRunning)]_vars

\* C36 happens: the result of the second worker has arrived before that of
\* the first, one of the two a failure, and the coordinator has received
\* neither
C36_Witness ==
    /\ pc = "parallel"
    /\ Len(results) = 2
    /\ results[1].idx # PhaseIndex
    /\ results[1].failed # results[2].failed

\* C40: a process that ends as a dry-run preview has dispatched no phase and
\* has left state.json, loop-counts.json and the feedback files as they
\* were, whatever --retry or --from it was given
C40_Original ==
    [][(pc = "stopped" /\ pc' = "returned" /\ ret' = "dry_run")
       => (/\ inflight' = NoInflight
           /\ hist'.lastDispatched = {}
           /\ UNCHANGED disk)]_vars

\* C37: the goroutine of a StdinReader takes from os.Stdin only lines the
\* operator typed to steer the agent, never a line typed in answer to the
\* permission prompt or to a gate prompt, whether its agent phase is running
\* or has returned
C37_Original ==
    [][\A k \in 1 .. MaxAgents :
          (sr[k].loop = "scan" /\ sr'[k].loop # "scan")
          => Head(stdin).for = "steer"]_vars

\* C38: a call of processStream that has returned with the cancellation
\* error has returned the result of the events it processed, the assistant
\* text accumulated in textBuf included
C38_Original ==
    (stream.at = "returned" /\ stream.err = "context canceled")
    => stream.result.Text = stream.textBuf

\* the entries of es for phase p whose End is zero
OpenEntries(es, p) == {i \in DOMAIN es : es[i].Phase = p /\ es[i].End = NoTime}

\* a step of a call on the Timing
TimingStep == <<Entries, timingCall>>' # <<Entries, timingCall>>

\* C39: AddEnd(p) with no open entry for p leaves the ledger as it is, and
\* otherwise sets End and Duration of the open entry for p of greatest index
\* and changes nothing else; AddStart(p) appends one open entry for p; no
\* step removes or reorders entries, and only AddStart adds one
C39_AddEndClosesLatestOpen ==
    /\ [][(TimingStep /\ timingCall'.op = "AddEnd")
          => LET p == timingCall'.phase
                 open == OpenEntries(Entries, p) IN
             IF open = {} THEN Entries' = Entries
             ELSE LET i == CHOOSE x \in open : \A y \in open : y <= x IN
                  /\ Len(Entries') = Len(Entries)
                  /\ Entries'[i].Phase = p
                  /\ Entries'[i].Start = Entries[i].Start
                  /\ Entries'[i].End = clock
                  /\ Entries'[i].End # NoTime
                  /\ Entries'[i].Duration = formatDuration(clock - Entries[i].Start)
                  /\ \A j \in DOMAIN Entries : j # i => Entries'[j] = Entries[j]]_vars
    /\ [][(TimingStep /\ timingCall'.op = "AddStart")
          => (/\ Len(Entries') = Len(Entries) + 1
              /\ SubSeq(Entries', 1, Len(Entries)) = Entries
              /\ Entries'[Len(Entries')].Phase = timingCall'.phase
              /\ Entries'[Len(Entries')].End = NoTime)]_vars
    /\ [][(/\ Len(Entries') >= Len(Entries)
           /\ \A j \in DOMAIN Entries :
                 /\ Entries'[j].Phase = Entries[j].Phase
                 /\ Entries'[j].Start = Entries[j].Start
           /\ Entries' # Entries => TimingStep)]_vars

\* C39 happens: of two entries for the same phase that were open together, the
\* call of AddEnd has closed the later and left the earlier open
C39_Witness ==
    /\ timingCall.op = "AddEnd"
    /\ \E i, j \in DOMAIN Entries :
          /\ i < j
          /\ Entries[i].Phase = timingCall.phase
          /\ Entries[j].Phase = timingCall.phase
          /\ Entries[i].End = NoTime
          /\ Entries[j].End # NoTime
          /\ Entries[i].Start < Entries[j].End

\* the phase at index i is dispatched with its partner by runParallel
PairAt(i) ==
    /\ phases[i].ParallelWith # ""
    /\ PhaseIndexOf(phases[i].ParallelWith) > i

\* C30 as stated: when RunGate has returned on the cancellation of the outer
\* context, Run ends with status interrupted persisted at the index of the
\* gate
C30_Original ==
    pc = "returned" /\ hist.gateCancelled # -1 =>
        /\ Status = StatusInterrupted
        /\ stateFile = Save(hist.gateCancelled, StatusInterrupted)

\* C30 amended: a gate whose RunGate has been called and whose context is
\* cancelled returns, whatever the operator does; when it has returned on the
\* cancellation of the outer context, Run ends with the cancellation error
\* and status interrupted, persisted at the index of the gate when the gate
\* is dispatched on its own, and at the index of the first phase of the pair
\* when it is dispatched by runParallel
C30_GateHonoursCancel ==
    /\ \A g \in Idx : (GateBlocked(g) /\ GateCtxDone) ~> ~GateBlocked(g)
    /\ [][(\E k \in 0 .. 2 : GateCancelled(k)) =>
            \E g \in Idx : GateBlocked(g) /\ ~GateBlocked(g)' /\ UNCHANGED cancelled]_vars
    /\ [][(pc = "dispatch" /\ GateBlocked(PhaseIndex) /\ cancelled /\ pc' # "stopped"
           /\ ~GateBlocked(PhaseIndex)')
          => (/\ pc' = "returned"
              /\ ret' = "cancelled"
              /\ Status' = StatusInterrupted
              /\ stateFile' = Save(PhaseIndex, StatusInterrupted)
              /\ PhaseIndex' = PhaseIndex)]_vars
    /\ [](pc = "parallel" /\ hist.gateCancelled # -1 =>
            /\ PairAt(PhaseIndex)
            /\ hist.gateCancelled \in {PhaseIndex, PhaseIndexOf(phases[PhaseIndex].ParallelWith)}
            /\ cancelled
            /\ firstErr # "" \/ \E n \in 1 .. Len(results) : results[n].failed)
    /\ [][(pc = "parallel" /\ hist.gateCancelled # -1 /\ pc' \notin {"parallel", "stopped"})
          => (/\ pc' = "returned"
              /\ ret' = "cancelled"
              /\ Status' = StatusInterrupted
              /\ stateFile' = Save(PhaseIndex, StatusInterrupted)
              /\ PhaseIndex' = PhaseIndex)]_vars
    /\ [](pc = "returned" /\ hist.gateCancelled # -1 =>
            /\ ret = "cancelled"
            /\ Status = StatusInterrupted
            /\ stateFile = Save(PhaseIndex, StatusInterrupted)
            /\ hist.gateCancelled # PhaseIndex =>
                  /\ PairAt(PhaseIndex)
                  /\ hist.gateCancelled = PhaseIndexOf(phases[PhaseIndex].ParallelWith))

\* C30 happens: the gate dispatched as the second phase of a pair has returned
\* on the cancellation of the outer context and Run has returned
C30_Witness ==
    /\ pc = "returned"
    /\ hist.gateCancelled # -1
    /\ hist.gateCancelled # PhaseIndex
    /\ Status = StatusInterrupted

\* C29 as stated, for the file of a rendered prompt: the bytes under the name
\* of a persisted file change only by the rename of a closed temporary
\* sibling whose bytes are on the disk (or by a power loss, which brings back
\* what the disk holds)
C29_Original ==
    [][ReadFile(fs', path) # ReadFile(fs, path) =>
          \/ /\ writer.at = "closed"
             /\ fs.names[tmp] # NoFile
             /\ Contents(fs.names[tmp]).disk = writer.data
             /\ fs'.names[path] = fs.names[tmp]
             /\ fs'.names[tmp] = NoFile
          \/ PowerLoss]_vars

\* the target holds what it held before the call in progress (or the last
\* one), or the bytes the call was given
C8_Whole(file) == file \in {writer.prev, writer.wrote}

\* C8: at every point at which the writer may crash or a reader may read the
\* target, the target holds its complete previous contents (or is absent if
\* it did not exist) or exactly the bytes given, never a part of them: in the
\* page cache, which readers and a restarted process see, and on the disk,
\* which is what is left after a power loss
C8_NeverPartial ==
    /\ [](C8_Whole(ReadFile(fs, path)))
    /\ [](\A file \in {fs.names[path], OnDisk(fs)} \ {NoFile} :
            /\ Contents(file).cache = Contents(file).want
            /\ Contents(file).disk = Contents(file).want)
    /\ [][seen' # seen => C8_Whole(seen')]_vars

\* C8 happens: a reader has read the previous contents of the target while
\* the temporary file holds a part of the bytes of the call in progress
C8_Witness ==
    /\ writer.at = "opened"
    /\ writer.off > 0
    /\ writer.prev # NoFile
    /\ writer.prev # writer.wrote
    /\ seen = writer.prev
    /\ Contents(fs.names[tmp]).cache # writer.data

====
